---- MODULE Spec2Model ----
(***************************************************************************)
(* easySTL allocator core: MallocAllocator (system heap with an OOM-handler *)
(* retry loop) and MemoryPoolAllocator (16 intrusive free lists over a     *)
(* bump arena).  Addresses are integers, NULL is 0.  The first machine     *)
(* word of a block is the only memory content the allocator reads or       *)
(* writes, so memory is a map from block addresses to that word.           *)
(***************************************************************************)
EXTENDS Integers, Sequences, FiniteSets, TLC

VARIABLES
    freelist,         \* MemoryPoolAllocator::freelist_[i].node_, i in 0..15
    mem,              \* first word of every block ever linked (GetNextNode)
    freespacestart,   \* MemoryPoolAllocator::freespacestart_
    freespaceend,     \* MemoryPoolAllocator::freespaceend_
    mallocoffset,     \* MemoryPoolAllocator::mallocoffset_
    handler,          \* MallocAllocator::CustomerOomHandler
    heap,             \* regions the system heap has granted and not freed
    live,             \* blocks the caller holds: <<[ptr, size]>>
    hist,             \* one record per completed call, oldest first
    status,           \* "running", "aborted" (std::abort) or "crashed"
    threads,          \* per execution context: where its Allocate stands
    lock,             \* holder of the external mutual-exclusion lock, or 0
    sync              \* whether the callers go through that lock

vars == <<freelist, mem, freespacestart, freespaceend, mallocoffset,
          handler, heap, live, hist, status, threads, lock, sync>>

threadvars == <<threads, lock, sync>>

poolvars == <<freelist, mem, freespacestart, freespaceend, mallocoffset>>

-----------------------------------------------------------------------------
(* Program constants *)

kAlign == 8
kMaxBytes == 128
kFreeListNum == kMaxBytes \div kAlign
max_retries == 3
kRefillChunks == 20

NULL == 0

(* sizeof(T) of AllocatorWrapper<int, A> *)
sizeofT == 4

(* Bounds of the model: calls per run under each specification, and the    *)
(* Deallocate and SetMallocHandler calls among them under the pool's.      *)
MaxOps == 4
MaxOpsGrant == 6
MaxOpsRefuse == 6
MaxOpsMalloc == 4
MaxFree == 2
MaxSet == 1
MaxOpsRealloc == 3
MaxOpsSize == 1
MaxOpsWrapper == 4
MaxOpsHandler == 3
MaxCalls == 4
MaxOpsVector == 3
MaxVectors == 2

(* std::size_t is modelled as an unsigned word of SizeBits bits; its        *)
(* arithmetic wraps at SizeMod as the machine's wraps at 2^64.              *)
SizeBits == 16
SizeMod == 2 ^ SizeBits

(* The handlers a caller installs; they return without touching the         *)
(* allocator (the one of the test only sets a flag).                        *)
Handlers == {1, 2}
HandlerArgs == {NULL} \cup Handlers

(* Handlers that call SetMallocHandler themselves: Uninstaller installs     *)
(* nullptr, Replacer installs Uninstaller.  Handlers 1 and 2 return without *)
(* touching the allocator.                                                  *)
Uninstaller == 3
Replacer == 4
ActiveHandlerArgs == {NULL, 1, Uninstaller, Replacer}

(* One system call more than any operation makes: ChunkAlloc's malloc, the  *)
(* malloc of MallocAllocator::Allocate and the three retries.               *)
MaxSysCalls == 2 + max_retries

(* Request sizes offered to the pool and to the raw allocator *)
Sizes == {8, 13, 24, 32, 200}
SmallSizes == {s \in Sizes : s <= kMaxBytes}
MallocSizes == {100, 200}

(* What the system heap does to the system calls of one operation: it       *)
(* refuses the first `fails` of them.  0 grants the first call, MaxSysCalls *)
(* refuses every call.                                                      *)
(* Sizes and heap behaviours offered where Reallocate is called: two sizes  *)
(* of one class below and above kMaxBytes, and classes on either side.      *)
ReallocSizes == {8, 13, 16, 32, 204, 208}
ReallocFails == {0, 1, 2}

(* Object counts and heap behaviours offered to AllocatorWrapper<int, A>:   *)
(* no object, one object, ten objects and a count whose bytes exceed        *)
(* kMaxBytes; a heap that grants, and one that refuses the first request.   *)
WrapperCounts == {0, 1, 10, 40}
WrapperFails == {0, 1}
Allocators == {"MemoryPoolAllocator", "MallocAllocator"}

(* vector<int>: lengths at construction (below, at and above the least     *)
(* capacity), element values, lengths asked of resize, and T().             *)
VectorLens == {2, 16, 17}
Values == {1, 2}
ResizeLens == {1, 3, 17}
DefaultValue == 0

(* Sizes the size arithmetic is applied to: 0, every size of a class, the   *)
(* first sizes above kMaxBytes, and the sizes next to the top of the word.  *)
SizeInputs ==
    (0..(kMaxBytes + kAlign)) \cup ((SizeMod - kAlign - 1)..(SizeMod - 1))

AnyFails == 0..MaxSysCalls
PoolFails == {0, 1, 2, MaxSysCalls}

(* Lowest address the system heap hands out; every address below it is     *)
(* unmapped.                                                               *)
HeapBase == kMaxBytes * kMaxBytes * 64

-----------------------------------------------------------------------------
(* Size arithmetic *)

(* RoundUp that always moves to the next multiple of kAlign *)
RoundUpNext(bytes) ==
    LET t == (bytes + kAlign) % SizeMod
    IN t - (t % kAlign)

(* (bytes + kAlign - 1) & ~(kAlign - 1) *)
RoundUp(bytes) ==
    LET t == (bytes + kAlign - 1) % SizeMod
    IN t - (t % kAlign)

(* GetFreelistIndex that divides before it rounds *)
GetFreelistIndexFloor(bytes) == (bytes \div kAlign - 1) % SizeMod

GetFreelistIndex(bytes) ==
    (((bytes + kAlign - 1) % SizeMod) \div kAlign - 1) % SizeMod

SetMin(S) == CHOOSE x \in S : \A y \in S : x <= y

-----------------------------------------------------------------------------
(* The system heap: malloc, realloc and free.  A request is granted at the  *)
(* lowest aligned address where it fits (first fit), or refused.            *)

Overlap(a, n, b, m) == a < b + m /\ b < a + n

FitsAt(h, a, n) == \A r \in h : ~Overlap(a, n, r.base, r.size)

AlignUp(a) == ((a + kAlign - 1) \div kAlign) * kAlign

FirstFit(h, n) ==
    SetMin({a \in {HeapBase} \cup {AlignUp(r.base + r.size) : r \in h} :
               FitsAt(h, a, n)})

(* A word of memory the process may read and write *)
ValidWord(h, a) ==
    \E r \in h : r.base <= a /\ a + kAlign <= r.base + r.size

-----------------------------------------------------------------------------
(* The state an operation works on: the allocator's statics, the heap, and  *)
(* what the call has done so far.  fails is the environment's input: the    *)
(* first `fails` system calls of the operation are refused.                 *)

Ctx(fails) ==
    [fl |-> freelist, mem |-> mem, start |-> freespacestart,
     end |-> freespaceend, off |-> mallocoffset, handler |-> handler,
     heap |-> heap, fails |-> fails, trace |-> <<>>, req |-> <<>>,
     result |-> NULL,
     chunknums |-> 0, aborted |-> FALSE, ub |-> FALSE, popped |-> FALSE,
     depth |-> 0, calls |-> <<>>, invoked |-> <<>>, grants |-> <<>>]

SysCalls(st) == Len(SelectSeq(st.trace, LAMBDA e : e # "handler"))

(* malloc(size) *)
SysMalloc(st, size) ==
    IF SysCalls(st) + 1 > st.fails
    THEN LET a == FirstFit(st.heap, size)
         IN [st EXCEPT !.result = a,
                       !.heap = @ \cup {[base |-> a, size |-> size]},
                       !.trace = Append(@, "sys_ok"),
                       !.req = Append(@, size)]
    ELSE [st EXCEPT !.result = NULL, !.trace = Append(@, "sys_fail"),
                    !.req = Append(@, size)]

(* realloc(obj, size): the block moves to the first fit once its own region *)
(* is released; a refused call leaves the block as it was.                  *)
SysRealloc(st, obj, size) ==
    IF SysCalls(st) + 1 > st.fails
    THEN LET h == {r \in st.heap : r.base # obj}
             a == FirstFit(h, size)
         IN [st EXCEPT !.result = a,
                       !.heap = h \cup {[base |-> a, size |-> size]},
                       !.trace = Append(@, "sys_ok"),
                       !.req = Append(@, size)]
    ELSE [st EXCEPT !.result = NULL, !.trace = Append(@, "sys_fail"),
                    !.req = Append(@, size)]

(* free(obj) *)
SysFree(st, obj) == [st EXCEPT !.heap = {r \in @ : r.base # obj}]

(* What handler h leaves in CustomerOomHandler when it returns *)
HandlerEffect(h, installed) ==
    IF h = Uninstaller THEN NULL
    ELSE IF h = Replacer THEN Uninstaller
    ELSE installed

(* The call of handler h through the pointer *)
Invoke(st, h) ==
    [st EXCEPT !.trace = Append(@, "handler"),
               !.invoked = Append(@, h),
               !.handler = HandlerEffect(h, @)]

\* the call through my_malloc_handler, read from CustomerOomHandler
InvokeHandler(st) == Invoke(st, st.handler)

(* The handler a loop would use that reads CustomerOomHandler only once,    *)
(* before its first iteration                                               *)
ReadOnce(st) == IF st.invoked = <<>> THEN st.handler ELSE st.invoked[1]

(* MallocInOom with the handler read before the loop *)
RECURSIVE MallocInOomReadsOnce(_, _, _)
MallocInOomReadsOnce(st, size, retry_count) ==
    IF retry_count < max_retries
    THEN IF ReadOnce(st) = NULL
         THEN [st EXCEPT !.aborted = TRUE]
         ELSE LET s1 == SysMalloc(Invoke(st, ReadOnce(st)), size)
              IN IF s1.result # NULL
                 THEN s1
                 ELSE MallocInOomReadsOnce(s1, size, retry_count + 1)
    ELSE [st EXCEPT !.result = NULL]

-----------------------------------------------------------------------------
(* MallocAllocator *)

(* MallocInOom with the loop bound off by one: a fourth retry *)
RECURSIVE MallocInOomOffByOne(_, _, _)
MallocInOomOffByOne(st, size, retry_count) ==
    IF retry_count <= max_retries
    THEN IF st.handler = NULL
         THEN [st EXCEPT !.aborted = TRUE]
         ELSE LET s1 == SysMalloc(InvokeHandler(st), size)
              IN IF s1.result # NULL
                 THEN s1
                 ELSE MallocInOomOffByOne(s1, size, retry_count + 1)
    ELSE [st EXCEPT !.result = NULL]

(* MallocInOom without the abort: a missing handler ends the loop with null *)
RECURSIVE MallocInOomNoAbort(_, _, _)
MallocInOomNoAbort(st, size, retry_count) ==
    IF retry_count < max_retries /\ st.handler # NULL
    THEN LET s1 == SysMalloc(InvokeHandler(st), size)
         IN IF s1.result # NULL
            THEN s1
            ELSE MallocInOomNoAbort(s1, size, retry_count + 1)
    ELSE [st EXCEPT !.result = NULL]

RECURSIVE MallocInOom(_, _, _)
MallocInOom(st, size, retry_count) ==
    IF retry_count < max_retries
    THEN IF st.handler = NULL
         THEN [st EXCEPT !.aborted = TRUE]
         ELSE LET s1 == SysMalloc(InvokeHandler(st), size)
              IN IF s1.result # NULL
                 THEN s1
                 ELSE MallocInOom(s1, size, retry_count + 1)
    ELSE [st EXCEPT !.result = NULL]

RECURSIVE ReallocInOom(_, _, _, _)
ReallocInOom(st, obj, size, retry_count) ==
    IF retry_count < max_retries
    THEN IF st.handler = NULL
         THEN [st EXCEPT !.aborted = TRUE]
         ELSE LET s1 == SysRealloc(InvokeHandler(st), obj, size)
              IN IF s1.result # NULL
                 THEN s1
                 ELSE ReallocInOom(s1, obj, size, retry_count + 1)
    ELSE [st EXCEPT !.result = NULL]

(* Allocate that enters the retry loop before its first system call *)
MallocAllocateEager(st, size) == MallocInOom(st, size, 0)

MallocAllocate(st, size) ==
    LET s1 == SysMalloc(st, size)
    IN IF s1.result = NULL THEN MallocInOom(s1, size, 0) ELSE s1

MallocDeallocate(st, obj, size) == SysFree(st, obj)

MallocReallocate(st, obj, oldsize, newsize) ==
    LET s1 == SysRealloc(st, obj, newsize)
    IN IF s1.result = NULL THEN ReallocInOom(s1, obj, newsize, 0) ELSE s1

-----------------------------------------------------------------------------
(* MemoryPoolList: an intrusive stack.  The link of a node is the first     *)
(* word of the block itself.  Reading or writing that word outside the      *)
(* memory the heap granted is undefined behaviour (st.ub): the access traps *)
(* or goes through.  A word an earlier access reached is reachable again.   *)

Accessible(st, node) == ValidWord(st.heap, node) \/ node \in DOMAIN st.mem

Empty(st, i) == st.fl[i] = NULL

GetNextNode(st, node) == st.mem[node]

(* Push with its two statements in the wrong order: the node links to itself *)
PushSwapped(st, i, node) ==
    [st EXCEPT !.mem = (node :> node) @@ st.mem,
               !.fl[i] = node,
               !.ub = @ \/ ~Accessible(st, node)]

Push(st, i, node) ==
    [st EXCEPT !.mem = (node :> st.fl[i]) @@ st.mem,
               !.fl[i] = node,
               !.ub = @ \/ ~Accessible(st, node)]

Pop(st, i) ==
    LET node == st.fl[i]
    IN [st EXCEPT !.result = node,
                  !.fl[i] = GetNextNode(st, node),
                  !.ub = @ \/ ~Accessible(st, node)]

-----------------------------------------------------------------------------
(* MemoryPoolAllocator *)

(* The loop of ChunkAlloc run from kMaxBytes downwards *)
FirstNonEmptyDescending(st, size) ==
    LET C == {i \in size..kMaxBytes :
                 (i - size) % kAlign = 0 /\ ~Empty(st, GetFreelistIndex(i))}
    IN IF C = {} THEN 0 ELSE CHOOSE x \in C : \A y \in C : y <= x

(* A scan that finds no list to requisition from *)
FirstNonEmptyNone(st, size) == 0

(* The loop of ChunkAlloc over the lists of size, size + kAlign, ...,       *)
(* kMaxBytes: the block size of the first list that is not empty, or 0.     *)
FirstNonEmpty(st, size) ==
    LET C == {i \in size..kMaxBytes :
                 (i - size) % kAlign = 0 /\ ~Empty(st, GetFreelistIndex(i))}
    IN IF C = {} THEN 0 ELSE SetMin(C)

(* Carving that moves the arena start one block too far *)
CarveOver(st, size, chunknums) ==
    [st EXCEPT !.result = st.start, !.chunknums = chunknums,
               !.start = st.start + (chunknums + 1) * size]

(* Carving that leaves the arena start one block behind *)
CarveShort(st, size, chunknums) ==
    [st EXCEPT !.result = st.start, !.chunknums = chunknums,
               !.start = st.start + (chunknums - 1) * size]

(* result = freespacestart_; freespacestart_ += bytesneed, with chunknums   *)
(* the number of blocks carved                                              *)
Carve(st, size, chunknums) ==
    [st EXCEPT !.result = st.start, !.chunknums = chunknums,
               !.start = st.start + chunknums * size]

(* Salvage that drops the remainder of the arena *)
SalvageNothing(st, bytesleft) == st

(* The remainder of the arena goes onto the free list of its size *)

(* Salvage that threads the remainder on the list one class below *)
SalvageClassBelow(st, bytesleft) ==
    IF bytesleft >= 2 * kAlign
    THEN Push(st, GetFreelistIndex(bytesleft - kAlign), st.start)
    ELSE st

(* The remainder of the old arena, if any, goes to the free list of its     *)
(* size before the arena is replaced                                        *)
Salvage(st, bytesleft) ==
    IF bytesleft >= kAlign
    THEN Push(st, GetFreelistIndex(bytesleft), st.start)
    ELSE st

(* The size of a new arena without the history term rounded up *)
BytesGetUnrounded(st, bytesneed) == bytesneed * 2 + st.off \div 16

(* bytesneed * 2 + RoundUp(mallocoffset_ >> 4) *)
BytesGet(st, bytesneed) == bytesneed * 2 + RoundUp(st.off \div 16)

(* ChunkAlloc whose requisition does not set the end of the arena *)
RECURSIVE ChunkAllocLosesEnd(_, _, _)
ChunkAllocLosesEnd(entered, size, chunknums) ==
    LET st == [entered EXCEPT !.depth = @ + 1]
        bytesneed == size * chunknums
        bytesleft == st.end - st.start
    IN
    IF bytesleft >= bytesneed
    THEN Carve(st, size, chunknums)
    ELSE IF bytesleft >= size
    THEN Carve(st, size, bytesleft \div size)
    ELSE
      LET bytesget == BytesGet(st, bytesneed)
          s1 == Salvage(st, bytesleft)
          s2 == SysMalloc(s1, bytesget)
      IN
      IF s2.result # NULL
      THEN ChunkAllocLosesEnd([s2 EXCEPT !.start = s2.result,
                                 !.off = @ + bytesget,
                                 !.end = s2.result + bytesget],
                      size, chunknums)
      ELSE
        LET i == FirstNonEmpty(s2, size)
        IN
        IF i # 0
        THEN LET s3 == Pop([s2 EXCEPT !.start = NULL], GetFreelistIndex(i))
             IN ChunkAllocLosesEnd([s3 EXCEPT !.start = s3.result,
                                               !.end = s3.result],
                                   size, chunknums)
        ELSE
          LET s4 == MallocAllocate([s2 EXCEPT !.start = NULL, !.end = NULL],
                                   bytesget)
          IN
          IF s4.aborted
          THEN s4
          ELSE ChunkAllocLosesEnd([s4 EXCEPT !.start = s4.result,
                                     !.off = @ + bytesget,
                                     !.end = s4.result + bytesget,
                                     !.ub = @ \/ s4.result = NULL],
                          size, chunknums)

(* st.depth counts the activations of ChunkAlloc within one call *)
RECURSIVE ChunkAlloc(_, _, _)
ChunkAlloc(entered, size, chunknums) ==
    LET st == [entered EXCEPT !.depth = @ + 1]
        bytesneed == size * chunknums
        bytesleft == st.end - st.start
    IN
    IF bytesleft >= bytesneed
    THEN Carve(st, size, chunknums)
    ELSE IF bytesleft >= size
    THEN Carve(st, size, bytesleft \div size)
    ELSE
      LET bytesget == BytesGet(st, bytesneed)
          s1 == Salvage(st, bytesleft)
          s2 == SysMalloc(s1, bytesget)
      IN
      IF s2.result # NULL
      THEN ChunkAlloc([s2 EXCEPT !.start = s2.result,
                                 !.off = @ + bytesget,
                                 !.end = s2.result + bytesget],
                      size, chunknums)
      ELSE
        LET i == FirstNonEmpty(s2, size)
        IN
        IF i # 0
        THEN LET s3 == Pop([s2 EXCEPT !.start = NULL], GetFreelistIndex(i))
             IN ChunkAlloc([s3 EXCEPT !.start = s3.result,
                                      !.end = s3.result + i],
                           size, chunknums)
        ELSE
          LET s4 == MallocAllocate([s2 EXCEPT !.start = NULL, !.end = NULL],
                                   bytesget)
          IN
          IF s4.aborted
          THEN s4
          ELSE ChunkAlloc([s4 EXCEPT !.start = s4.result,
                                     !.off = @ + bytesget,
                                     !.end = s4.result + bytesget,
                                     !.ub = @ \/ s4.result = NULL],
                          size, chunknums)

(* The loop of Refill: the blocks after the first go onto the free list *)
RECURSIVE ThreadChunks(_, _, _, _, _)
ThreadChunks(st, size, nextchunk, i, chunknums) ==
    IF i < chunknums
    THEN ThreadChunks(Push(st, GetFreelistIndex(size), nextchunk),
                      size, nextchunk + size, i + 1, chunknums)
    ELSE st

(* Refill that reports a batch of one block as a failure *)
RefillDropsSingle(st, size) ==
    LET c == ChunkAlloc(st, size, kRefillChunks)
        chunk == c.result
    IN IF c.aborted
       THEN c
       ELSE IF c.chunknums = 1
       THEN [c EXCEPT !.result = NULL]
       ELSE [ThreadChunks(c, size, chunk + size, 1, c.chunknums)
                EXCEPT !.result = chunk]

(* Refill that threads the block it returns as well *)
RefillThreadsAll(st, size) ==
    LET c == ChunkAlloc(st, size, kRefillChunks)
        chunk == c.result
    IN IF c.aborted
       THEN c
       ELSE IF c.chunknums = 1
       THEN c
       ELSE [ThreadChunks(c, size, chunk, 0, c.chunknums)
                EXCEPT !.result = chunk]

Refill(st, size) ==
    LET c == ChunkAlloc(st, size, kRefillChunks)
        chunk == c.result
    IN IF c.aborted
       THEN c
       ELSE IF c.chunknums = 1
       THEN c
       ELSE [ThreadChunks(c, size, chunk + size, 1, c.chunknums)
                EXCEPT !.result = chunk]

(* Allocate that refills with the requested size, not rounded up *)
PoolAllocateUnrounded(st, size) ==
    IF size > kMaxBytes
    THEN MallocAllocate(st, size)
    ELSE LET index == GetFreelistIndex(size)
         IN IF Empty(st, index)
            THEN Refill(st, size)
            ELSE [Pop(st, index) EXCEPT !.popped = TRUE]

(* Allocate that adds a large request to mallocoffset_ *)
PoolAllocateCountsLarge(st, size) ==
    IF size > kMaxBytes
    THEN [MallocAllocate(st, size) EXCEPT !.off = @ + size]
    ELSE LET index == GetFreelistIndex(size)
         IN IF Empty(st, index)
            THEN Refill(st, RoundUp(size))
            ELSE [Pop(st, index) EXCEPT !.popped = TRUE]

PoolAllocate(st, size) ==
    IF size > kMaxBytes
    THEN MallocAllocate(st, size)
    ELSE LET index == GetFreelistIndex(size)
         IN IF Empty(st, index)
            THEN Refill(st, RoundUp(size))
            ELSE [Pop(st, index) EXCEPT !.popped = TRUE]

(* Deallocate without the return after the large case: the freed block is  *)
(* pushed as well (on the last list, where an index past the table lands).  *)
PoolDeallocateFallsThrough(st, obj, size) ==
    LET s1 == IF size > kMaxBytes THEN MallocDeallocate(st, obj, size) ELSE st
        i == GetFreelistIndex(size)
    IN Push(s1, IF i < kFreeListNum THEN i ELSE kFreeListNum - 1, obj)

PoolDeallocate(st, obj, size) ==
    IF size > kMaxBytes
    THEN MallocDeallocate(st, obj, size)
    ELSE Push(st, GetFreelistIndex(size), obj)

(* Reallocate that compares the sizes themselves, not their classes *)
PoolReallocateExact(st, obj, oldsize, newsize) ==
    IF newsize = oldsize
    THEN [st EXCEPT !.result = obj]
    ELSE PoolAllocate(PoolDeallocate(st, obj, oldsize), newsize)

(* Reallocate that allocates the new block before it releases the old one *)
PoolReallocateAllocFirst(st, obj, oldsize, newsize) ==
    IF RoundUp(newsize) = RoundUp(oldsize)
    THEN [st EXCEPT !.result = obj]
    ELSE LET a == PoolAllocate(st, newsize)
         IN IF a.aborted
            THEN a
            ELSE [PoolDeallocate(a, obj, oldsize) EXCEPT !.result = a.result]

PoolReallocate(st, obj, oldsize, newsize) ==
    IF RoundUp(newsize) = RoundUp(oldsize)
    THEN [st EXCEPT !.result = obj]
    ELSE PoolAllocate(PoolDeallocate(st, obj, oldsize), newsize)

-----------------------------------------------------------------------------
(* Calls.  Each call runs to completion; std::abort or a crash on undefined  *)
(* behaviour ends the process and nothing is called after it.               *)

(* AllocatorWrapper<T, Allocator>: the static call Allocator::f(args) is    *)
(* noted in st.calls and then made; st.grants keeps what each Allocate      *)
(* returned.                                                                *)
Granting(s) == [s EXCEPT !.grants = Append(@, s.result)]

AllocatorAllocate(st, alloc, size) ==
    LET s1 == [st EXCEPT !.calls = Append(@, [op |-> "Allocate",
                                             size |-> size, ptr |-> NULL])]
    IN CHOOSE out \in {Granting(s2) :
                          s2 \in {IF alloc = "MemoryPoolAllocator"
                                  THEN PoolAllocate(s1, size)
                                  ELSE MallocAllocate(s1, size)}} : TRUE

AllocatorDeallocate(st, alloc, ptr, size) ==
    LET s1 == [st EXCEPT !.calls = Append(@, [op |-> "Deallocate",
                                             size |-> size, ptr |-> ptr])]
    IN IF alloc = "MemoryPoolAllocator"
       THEN PoolDeallocate(s1, ptr, size)
       ELSE MallocDeallocate(s1, ptr, size)

(* Allocate(n) that asks the allocator for one object when n is 0 *)
WrapperAllocateAtLeastOne(st, alloc, n) ==
    AllocatorAllocate(st, alloc, (IF n = 0 THEN 1 ELSE n) * sizeofT)

(* Allocate(n) that passes the count of objects as the count of bytes *)
WrapperAllocateCounts(st, alloc, n) ==
    IF n = 0
    THEN [st EXCEPT !.result = NULL]
    ELSE AllocatorAllocate(st, alloc, n)

(* AllocatorWrapper::Allocate(n) *)
WrapperAllocate(st, alloc, n) ==
    IF n = 0
    THEN [st EXCEPT !.result = NULL]
    ELSE AllocatorAllocate(st, alloc, n * sizeofT)

(* AllocatorWrapper::Allocate() *)
WrapperAllocateOne(st, alloc) == AllocatorAllocate(st, alloc, sizeofT)

(* AllocatorWrapper::Deallocate(ptr, n) *)
WrapperDeallocate(st, alloc, ptr, n) ==
    IF n # 0
    THEN AllocatorDeallocate(st, alloc, ptr, n * sizeofT)
    ELSE st

(* AllocatorWrapper::Deallocate(ptr) *)
WrapperDeallocateOne(st, alloc, ptr) ==
    AllocatorDeallocate(st, alloc, ptr, sizeofT)

-----------------------------------------------------------------------------
(* algo.h, uninitialized.h and constructor.h over int.  An element lives at *)
(* its address in st.mem.  buf is the buffer the destination belongs to: a  *)
(* store outside it is undefined behaviour (st.ub), and so is a load of a   *)
(* word never written.                                                      *)

Max(a, b) == IF a > b THEN a ELSE b

Remove(seq, i) == SubSeq(seq, 1, i - 1) \o SubSeq(seq, i + 1, Len(seq))

(* F applied to the value of s: s is computed once *)
Then(s, F(_)) == CHOOSE out \in {F(r) : r \in {s}} : TRUE

Buffer(lo, hi) == [lo |-> lo, hi |-> hi]

Within(buf, p) == buf.lo # NULL /\ buf.lo <= p /\ p + sizeofT <= buf.hi

Load(st, p) == IF p \in DOMAIN st.mem THEN st.mem[p] ELSE DefaultValue

(* Construct(p, value) and *p = value *)
Store(st, buf, p, value) ==
    [st EXCEPT !.mem = (p :> value) @@ st.mem,
               !.ub = @ \/ ~Within(buf, p)]

(* *result = *first *)
Move(st, buf, first, result) ==
    [st EXCEPT !.mem = (result :> Load(st, first)) @@ st.mem,
               !.ub = @ \/ ~Within(buf, result) \/ first \notin DOMAIN st.mem]

RECURSIVE Copy(_, _, _, _, _)
Copy(st, buf, first, last, result) ==
    IF first = last
    THEN [st EXCEPT !.result = result]
    ELSE Then(Move(st, buf, first, result),
              LAMBDA r : Copy(r, buf, first + sizeofT, last,
                              result + sizeofT))

RECURSIVE CopyBackward(_, _, _, _, _)
CopyBackward(st, buf, first, last, result) ==
    IF first = last
    THEN [st EXCEPT !.result = result]
    ELSE Then(Move(st, buf, last - sizeofT, result - sizeofT),
              LAMBDA r : CopyBackward(r, buf, first, last - sizeofT,
                                      result - sizeofT))

RECURSIVE Fill(_, _, _, _, _)
Fill(st, buf, first, last, value) ==
    IF first = last
    THEN st
    ELSE Then(Store(st, buf, first, value),
              LAMBDA r : Fill(r, buf, first + sizeofT, last, value))

uninitialized_copy(st, buf, first, last, result) ==
    Copy(st, buf, first, last, result)

RECURSIVE uninitialized_fill_n(_, _, _, _, _)
uninitialized_fill_n(st, buf, first, n, value) ==
    IF n > 0
    THEN Then(Store(st, buf, first, value),
              LAMBDA r : uninitialized_fill_n(r, buf, first + sizeofT,
                                              n - 1, value))
    ELSE [st EXCEPT !.result = first]

-----------------------------------------------------------------------------
(* vector<int>.  st.vec holds the vector objects (begin_, end_, capacity_), *)
(* st.tmp the object a constructor is building; `this` is an index of       *)
(* st.vec.                                                                  *)

Object(b, e, c) == [begin |-> b, end |-> e, capacity |-> c]

(* vector() *)
VectorDefault == Object(NULL, NULL, NULL)

VecSize(v) == (v.end - v.begin) \div sizeofT

VecEmpty(v) == v.begin = v.end

VecCapacity(v) == (v.capacity - v.begin) \div sizeofT

At(v, n) == v.begin + n * sizeofT

Own(v) == Buffer(v.begin, v.capacity)

DataAllocatorAllocate(st, n) == WrapperAllocate(st, "MemoryPoolAllocator", n)

DataAllocatorDeallocate(st, ptr, n) ==
    WrapperDeallocate(st, "MemoryPoolAllocator", ptr, n)

(* NumsInit that sizes the buffer by the length alone *)
NumsInitExact(st, n, value) ==
    Then(DataAllocatorAllocate(st, n), LAMBDA s1 :
    Then(uninitialized_fill_n(s1,
             Buffer(s1.result, s1.result + n * sizeofT),
             s1.result, n, value), LAMBDA s2 :
    [s2 EXCEPT !.tmp = Object(s1.result, s2.result,
                              s1.result + n * sizeofT)]))

NumsInit(st, n, value) ==
    LET initsize == Max(n, 16)
    IN Then(DataAllocatorAllocate(st, initsize), LAMBDA s1 :
       Then(uninitialized_fill_n(s1,
                Buffer(s1.result, s1.result + initsize * sizeofT),
                s1.result, n, value), LAMBDA s2 :
       [s2 EXCEPT !.tmp = Object(s1.result, s2.result,
                                 s1.result + initsize * sizeofT)]))

RangeInit(st, first, last) ==
    LET initsize == Max((last - first) \div sizeofT, 16)
    IN Then(DataAllocatorAllocate(st, initsize), LAMBDA s1 :
       Then(uninitialized_copy(s1,
                Buffer(s1.result, s1.result + initsize * sizeofT),
                first, last, s1.result), LAMBDA s2 :
       [s2 EXCEPT !.tmp = Object(s1.result, s2.result,
                                 s1.result + initsize * sizeofT)]))

(* DestroyDeallocate that releases as many objects as it destroys *)
DestroyDeallocateBySize(st, first, last, len) ==
    IF first # NULL
    THEN DataAllocatorDeallocate(st, first, (last - first) \div sizeofT)
    ELSE st

DestroyDeallocate(st, first, last, len) ==
    IF first # NULL
    THEN DataAllocatorDeallocate(st, first, len)
    ELSE st

(* InsertAux that leaves the elements before pos behind *)
InsertAuxDropsHead(st, this, pos, nums, x) ==
    LET v == st.vec[this]
        newsize == Max(VecSize(v) * 2, 16)
    IN Then(DataAllocatorAllocate(st, newsize), LAMBDA s1 :
       LET newbegin == s1.result
           buf == Buffer(newbegin, newbegin + newsize * sizeofT)
       IN Then(uninitialized_fill_n(s1, buf, newbegin + (pos - v.begin),
                                    nums, x), LAMBDA s3 :
          Then(uninitialized_copy(s3, buf, pos, v.end, s3.result),
               LAMBDA s4 :
          Then(DestroyDeallocate(s4, v.begin, v.end, VecCapacity(v)),
               LAMBDA s5 :
          [s5 EXCEPT !.vec[this] = Object(newbegin, s4.result,
                                          newbegin + newsize * sizeofT)]))))

InsertAux(st, this, pos, nums, x) ==
    LET v == st.vec[this]
        newsize == Max(VecSize(v) * 2, 16)
    IN Then(DataAllocatorAllocate(st, newsize), LAMBDA s1 :
       LET newbegin == s1.result
           buf == Buffer(newbegin, newbegin + newsize * sizeofT)
       IN Then(uninitialized_copy(s1, buf, v.begin, pos, newbegin),
               LAMBDA s2 :
          Then(uninitialized_fill_n(s2, buf, s2.result, nums, x),
               LAMBDA s3 :
          Then(uninitialized_copy(s3, buf, pos, v.end, s3.result),
               LAMBDA s4 :
          Then(DestroyDeallocate(s4, v.begin, v.end, VecCapacity(v)),
               LAMBDA s5 :
          [s5 EXCEPT !.vec[this] = Object(newbegin, s4.result,
                                          newbegin + newsize * sizeofT)])))))

push_back(st, this, x) ==
    LET v == st.vec[this]
    IN IF v.end # v.capacity
       THEN [Store(st, Own(v), v.end, x)
                EXCEPT !.vec[this].end = v.end + sizeofT]
       ELSE InsertAux(st, this, v.end, 1, x)

(* erase(pos) *)
erase(st, this, pos) ==
    LET v == st.vec[this]
    IN [Copy(st, Own(v), pos + sizeofT, v.end, pos)
           EXCEPT !.vec[this].end = v.end - sizeofT, !.result = pos]

(* erase(first, last) *)
erase_range(st, this, first, last) ==
    LET v == st.vec[this]
    IN IF first # last
       THEN [Copy(st, Own(v), last, v.end, first)
                EXCEPT !.vec[this].end = v.end - (last - first),
                       !.result = last]
       ELSE [st EXCEPT !.result = last]

(* static_cast<size_type>(capacity_ - end_) >= size: a negative difference *)
(* is a huge unsigned number.                                               *)
RoomFor(v, n) ==
    LET d == (v.capacity - v.end) \div sizeofT
    IN d < 0 \/ d >= n

(* insert(pos, size, x) that fills before it moves the tail *)
insertFillsFirst(st, this, pos, n, x) ==
    LET v == st.vec[this]
    IN IF RoomFor(v, n)
       THEN Then(Fill(st, Own(v), pos, pos + n * sizeofT, x), LAMBDA s1 :
            Then(uninitialized_copy(s1, Own(v), pos, v.end,
                                    pos + n * sizeofT), LAMBDA s2 :
            [s2 EXCEPT !.vec[this].end = v.end + n * sizeofT,
                       !.result = pos]))
       ELSE [InsertAux(st, this, pos, n, x) EXCEPT !.result = pos]

(* insert(pos, size, x) *)
insert(st, this, pos, n, x) ==
    LET v == st.vec[this]
        elemsafter == (v.end - pos) \div sizeofT
        oldend == v.end
    IN IF RoomFor(v, n)
       THEN IF elemsafter > n
            THEN Then(uninitialized_copy(st, Own(v), v.end - n * sizeofT,
                                         v.end, v.end), LAMBDA s1 :
                 Then(CopyBackward(s1, Own(v), pos, oldend - n * sizeofT,
                                   oldend), LAMBDA s2 :
                 [Fill(s2, Own(v), pos, pos + n * sizeofT, x)
                     EXCEPT !.vec[this].end = v.end + n * sizeofT,
                            !.result = pos]))
            ELSE Then(uninitialized_fill_n(st, Own(v), v.end,
                                           n - elemsafter, x), LAMBDA s1 :
                 Then(uninitialized_copy(s1, Own(v), pos, oldend,
                                         s1.result), LAMBDA s2 :
                 [Fill(s2, Own(v), pos, oldend, x)
                     EXCEPT !.vec[this].end = v.end + n * sizeofT,
                            !.result = pos]))
       ELSE [InsertAux(st, this, pos, n, x) EXCEPT !.result = pos]

(* insert(pos, x) *)
insert_one(st, this, pos, x) == insert(st, this, pos, 1, x)

(* resize(newsize, x) *)
resize(st, this, newsize, x) ==
    LET v == st.vec[this]
    IN IF newsize < VecSize(v)
       THEN erase_range(st, this, At(v, newsize), v.end)
       ELSE insert(st, this, v.end, newsize - VecSize(v), x)

clear(st, this) ==
    LET v == st.vec[this]
    IN erase_range(st, this, v.begin, v.end)

(* swap(rhs) *)
swap(st, this, rhs) ==
    IF this # rhs
    THEN [st EXCEPT !.vec[this] = st.vec[rhs], !.vec[rhs] = st.vec[this]]
    ELSE st

(* ~vector(): the buffer is released and the object is gone *)
Destructor(st, this) ==
    LET v == st.vec[this]
    IN Then(DestroyDeallocate(st, v.begin, v.end, VecCapacity(v)),
            LAMBDA s1 : [s1 EXCEPT !.vec = Remove(@, this)])

(* operator=(rhs); the temporary of the first branch is destroyed on return *)
Assign(st, this, rhs) ==
    LET v == st.vec[this]
        r == st.vec[rhs]
        rhslen == VecSize(r)
    IN IF this # rhs
       THEN IF rhslen > VecCapacity(v)
            THEN Then(RangeInit(st, r.begin, r.end), LAMBDA s1 :
                 DestroyDeallocate([s1 EXCEPT !.vec[this] = s1.tmp,
                                              !.tmp = v],
                                   v.begin, v.end, VecCapacity(v)))
            ELSE IF VecSize(v) >= rhslen
            THEN [Copy(st, Own(v), r.begin, r.end, v.begin)
                     EXCEPT !.vec[this].end = At(v, rhslen)]
            ELSE Then(Copy(st, Own(v), r.begin, r.end, v.begin),
                      LAMBDA s1 :
                 [uninitialized_copy(s1, Own(v), At(r, VecSize(v)), r.end,
                                     v.end)
                     EXCEPT !.vec[this].end = At(v, rhslen)])
       ELSE st

NoRet == NULL - 1

Outcome(r, cont) ==
    IF r.aborted THEN "aborted"
    ELSE IF r.ub /\ ~cont THEN "crashed"
    ELSE "running"

Commit(r, cont) ==
    /\ freelist' = r.fl
    /\ mem' = r.mem
    /\ freespacestart' = r.start
    /\ freespaceend' = r.end
    /\ mallocoffset' = r.off
    /\ handler' = r.handler
    /\ heap' = r.heap
    /\ status' = Outcome(r, cont)
    /\ UNCHANGED threadvars

Call(op, size, ptr, r, cont) ==
    [op |-> op, size |-> size, ptr |-> ptr,
     ret |-> IF Outcome(r, cont) = "running" THEN r.result ELSE NoRet,
     trace |-> r.trace, req |-> r.req, popped |-> r.popped,
     depth |-> r.depth]

(* The sizes a well-formed caller may pass when it releases a block it got  *)
(* with size t: any size of the same class, the exact size above kMaxBytes. *)
DeallocSizes(t) == IF t > kMaxBytes THEN {t} ELSE {t, RoundUp(t)}

Count(op) == Len(SelectSeq(hist, LAMBDA c : c.op = op))

(* The execution contexts that call the pool, and a context outside a call *)
Contexts == {1, 2}
ThreadSizes == {8, 13}
Idle == [pc |-> "idle", size |-> 0, result |-> NULL, chunknums |-> 0,
         bytesneed |-> 0, bytesleft |-> 0, popped |-> FALSE]

InitPool ==
    /\ freelist = [i \in 0..(kFreeListNum - 1) |-> NULL]
    /\ mem = <<>>
    /\ freespacestart = NULL
    /\ freespaceend = NULL
    /\ mallocoffset = 0
    /\ handler = NULL
    /\ heap = {}
    /\ live = <<>>
    /\ hist = <<>>
    /\ status = "running"
    /\ threads = [c \in Contexts |-> Idle]
    /\ lock = 0

(* One caller, no lock *)
Init == InitPool /\ sync = FALSE

(* Two callers, with or without the external lock *)
InitThreads == InitPool /\ sync \in BOOLEAN

(* MemoryPoolAllocator::Allocate(size) *)
Allocate(sizes, failset, bound) ==
    /\ status = "running"
    /\ Len(hist) < bound
    /\ \E size \in sizes, fails \in failset, cont \in BOOLEAN :
         \E r \in {PoolAllocate(Ctx(fails), size)} :
            /\ Commit(r, cont)
            /\ hist' = Append(hist, Call("Allocate", size, NULL, r, cont))
            /\ live' = IF Outcome(r, cont) = "running" /\ r.result # NULL
                       THEN Append(live, [ptr |-> r.result, size |-> size])
                       ELSE live

(* MemoryPoolAllocator::Deallocate(obj, size) of a block the caller holds *)
Deallocate(bound) ==
    /\ status = "running"
    /\ Len(hist) < bound
    /\ Count("Deallocate") < MaxFree
    /\ \E i \in 1..Len(live), cont \in BOOLEAN :
         \E size \in DeallocSizes(live[i].size) :
           \E r \in {PoolDeallocate(Ctx(0), live[i].ptr, size)} :
              /\ Commit(r, cont)
              /\ hist' = Append(hist,
                     Call("Deallocate", size, live[i].ptr, r, cont))
              /\ live' = Remove(live, i)

(* MemoryPoolAllocator::Reallocate(obj, oldsize, newsize) of a block the    *)
(* caller holds, with the size it was allocated with.  The caller gives up  *)
(* the old block and holds what the call returns.                           *)
Reallocate(sizes, failset, bound) ==
    /\ status = "running"
    /\ Len(hist) < bound
    /\ \E i \in 1..Len(live), newsize \in sizes, fails \in failset,
          cont \in BOOLEAN :
         \E r \in {PoolReallocate(Ctx(fails), live[i].ptr, live[i].size,
                                  newsize)} :
            /\ Commit(r, cont)
            /\ hist' = Append(hist,
                   Call("Reallocate", newsize, live[i].ptr, r, cont)
                      @@ [oldsize |-> live[i].size])
            /\ live' = IF Outcome(r, cont) = "running" /\ r.result # NULL
                       THEN Append(Remove(live, i),
                                   [ptr |-> r.result, size |-> newsize])
                       ELSE Remove(live, i)

(* SetMallocHandler that returns the handler it has just installed *)
SetMallocHandlerReturnsNew(st, func) ==
    [st EXCEPT !.result = func, !.handler = func]

(* MallocAllocator::SetMallocHandler(func) *)
SetMallocHandlerOp(st, func) ==
    [st EXCEPT !.result = st.handler, !.handler = func]

SetMallocHandler(bound, calls) ==
    /\ status = "running"
    /\ Len(hist) < bound
    /\ Count("SetMallocHandler") < calls
    /\ \E func \in HandlerArgs :
         \E r \in {SetMallocHandlerOp(Ctx(0), func)} :
            /\ Commit(r, TRUE)
            /\ hist' = Append(hist,
                   Call("SetMallocHandler", 0, func, r, TRUE))
            /\ live' = live

(* MallocAllocator::Allocate(size) *)
RawAllocate ==
    /\ status = "running"
    /\ Len(hist) < MaxOpsMalloc
    /\ \E size \in MallocSizes, fails \in AnyFails :
         \E r \in {MallocAllocate(Ctx(fails), size)} :
            /\ Commit(r, TRUE)
            /\ hist' = Append(hist, Call("Allocate", size, NULL, r, TRUE))
            /\ live' = IF ~r.aborted /\ r.result # NULL
                       THEN Append(live, [ptr |-> r.result, size |-> size])
                       ELSE live

(* MallocAllocator::Deallocate(obj, size) *)
RawDeallocate ==
    /\ status = "running"
    /\ Len(hist) < MaxOpsMalloc
    /\ \E i \in 1..Len(live) :
         \E r \in {MallocDeallocate(Ctx(0), live[i].ptr, live[i].size)} :
            /\ Commit(r, TRUE)
            /\ hist' = Append(hist,
                   Call("Deallocate", live[i].size, live[i].ptr, r, TRUE))
            /\ live' = Remove(live, i)

(* MallocAllocator::Reallocate(obj, oldsize, newsize); when it returns      *)
(* null the caller still holds the old block.                               *)
RawReallocate ==
    /\ status = "running"
    /\ Len(hist) < MaxOpsMalloc
    /\ \E i \in 1..Len(live), newsize \in MallocSizes, fails \in AnyFails :
         \E r \in {MallocReallocate(Ctx(fails), live[i].ptr, live[i].size,
                                    newsize)} :
            /\ Commit(r, TRUE)
            /\ hist' = Append(hist,
                   Call("Reallocate", newsize, live[i].ptr, r, TRUE))
            /\ live' = IF ~r.aborted /\ r.result # NULL
                       THEN Append(Remove(live, i),
                                   [ptr |-> r.result, size |-> newsize])
                       ELSE live

(* A call of AllocatorWrapper<int, alloc> as the history keeps it: `form`   *)
(* tells the overload, n the count of objects it stands for.                *)
WrapperCall(op, form, alloc, n, ptr, fails, r, cont) ==
    Call(op, n * sizeofT, ptr, r, cont)
       @@ [form |-> form, alloc |-> alloc, n |-> n, fails |-> fails,
           calls |-> r.calls]

Holding(alloc, n, r) == [ptr |-> r.result, size |-> n * sizeofT,
                         alloc |-> alloc, n |-> n]

(* AllocatorWrapper<int, alloc>::Allocate(n): the caller holds what the     *)
(* call returns when it asked for no object or got a block.                 *)
AllocatorWrapperAllocate ==
    /\ status = "running"
    /\ Len(hist) < MaxOpsWrapper
    /\ \E alloc \in Allocators, n \in WrapperCounts, fails \in WrapperFails,
          cont \in BOOLEAN :
         \E r \in {WrapperAllocate(Ctx(fails), alloc, n)} :
            /\ Commit(r, cont)
            /\ hist' = Append(hist, WrapperCall("Allocate", "n", alloc, n,
                                                NULL, fails, r, cont))
            /\ live' = IF Outcome(r, cont) = "running"
                          /\ (n = 0 \/ r.result # NULL)
                       THEN Append(live, Holding(alloc, n, r))
                       ELSE live

(* AllocatorWrapper<int, alloc>::Allocate() *)
AllocatorWrapperAllocateOne ==
    /\ status = "running"
    /\ Len(hist) < MaxOpsWrapper
    /\ \E alloc \in Allocators, fails \in WrapperFails, cont \in BOOLEAN :
         \E r \in {WrapperAllocateOne(Ctx(fails), alloc)} :
            /\ Commit(r, cont)
            /\ hist' = Append(hist, WrapperCall("Allocate", "one", alloc, 1,
                                                NULL, fails, r, cont))
            /\ live' = IF Outcome(r, cont) = "running" /\ r.result # NULL
                       THEN Append(live, Holding(alloc, 1, r))
                       ELSE live

(* AllocatorWrapper<int, alloc>::Deallocate(ptr, n) of what Allocate(n)     *)
(* returned                                                                 *)
AllocatorWrapperDeallocate ==
    /\ status = "running"
    /\ Len(hist) < MaxOpsWrapper
    /\ \E i \in 1..Len(live), cont \in BOOLEAN :
         \E r \in {WrapperDeallocate(Ctx(0), live[i].alloc, live[i].ptr,
                                     live[i].n)} :
            /\ Commit(r, cont)
            /\ hist' = Append(hist,
                   WrapperCall("Deallocate", "n", live[i].alloc, live[i].n,
                               live[i].ptr, 0, r, cont))
            /\ live' = Remove(live, i)

(* AllocatorWrapper<int, alloc>::Deallocate(ptr) of a block the caller      *)
(* holds                                                                    *)
AllocatorWrapperDeallocateOne ==
    /\ status = "running"
    /\ Len(hist) < MaxOpsWrapper
    /\ \E i \in 1..Len(live), cont \in BOOLEAN :
         /\ live[i].ptr # NULL
         /\ \E r \in {WrapperDeallocateOne(Ctx(0), live[i].alloc,
                                           live[i].ptr)} :
              /\ Commit(r, cont)
              /\ hist' = Append(hist,
                     WrapperCall("Deallocate", "one", live[i].alloc, 1,
                                 live[i].ptr, 0, r, cont))
              /\ live' = Remove(live, i)

(* The allocator and the vector objects a vector operation starts from;    *)
(* the heap grants what it is asked for.                                    *)
VCtx == Ctx(0) @@ [vec |-> live, tmp |-> VectorDefault]

(* The elements of vector v in memory m *)
Elements(m, v) ==
    [k \in 1..VecSize(v) |->
        IF At(v, k - 1) \in DOMAIN m THEN m[At(v, k - 1)] ELSE NoRet]

(* A call on vector `this` as the history keeps it, with the elements and   *)
(* the capacity it found.                                                   *)
VectorCall(op, this, at, n, x, r, cont) ==
    [op |-> op, this |-> this, at |-> at, n |-> n, x |-> x,
     before |-> IF this \in 1..Len(live)
                THEN Elements(mem, live[this]) ELSE <<>>,
     ub |-> r.ub,
     returned |-> Outcome(r, cont) = "running",
     calls |-> r.calls, grants |-> r.grants]

VCommit(op, this, at, n, x, r, cont) ==
    /\ Commit(r, cont)
    /\ live' = r.vec
    /\ hist' = Append(hist, VectorCall(op, this, at, n, x, r, cont))

(* vector<int> v; *)
VectorDefaultCtor ==
    /\ status = "running"
    /\ Len(hist) < MaxOpsVector
    /\ Len(live) < MaxVectors
    /\ \E r \in {[VCtx EXCEPT !.vec = Append(@, VectorDefault)]} :
          VCommit("vector()", Len(live) + 1, 0, 0, 0, r, TRUE)

(* vector<int> v(len, value); *)
VectorLenValue ==
    /\ status = "running"
    /\ Len(hist) < MaxOpsVector
    /\ Len(live) < MaxVectors
    /\ \E len \in VectorLens, value \in Values, cont \in BOOLEAN :
         \E s \in {NumsInit(VCtx, len, value)} :
            \E r \in {[s EXCEPT !.vec = Append(@, s.tmp)]} :
               VCommit("vector(len, value)", Len(live) + 1, 0, len, value,
                       r, cont)

(* vector<int> v(other); *)
VectorCopy ==
    /\ status = "running"
    /\ Len(hist) < MaxOpsVector
    /\ Len(live) < MaxVectors
    /\ \E other \in 1..Len(live), cont \in BOOLEAN :
         \E s \in {RangeInit(VCtx, live[other].begin, live[other].end)} :
            \E r \in {[s EXCEPT !.vec = Append(@, s.tmp)]} :
               VCommit("vector(other)", Len(live) + 1, other, 0, 0, r, cont)

(* v = rhs; *)
VectorAssign ==
    /\ status = "running"
    /\ Len(hist) < MaxOpsVector
    /\ \E this \in 1..Len(live), rhs \in 1..Len(live), cont \in BOOLEAN :
         \E r \in {Assign(VCtx, this, rhs)} :
            VCommit("operator=", this, rhs, 0, 0, r, cont)

(* v.push_back(x); *)
VectorPushBack ==
    /\ status = "running"
    /\ Len(hist) < MaxOpsVector
    /\ \E this \in 1..Len(live), x \in Values, cont \in BOOLEAN :
         \E r \in {push_back(VCtx, this, x)} :
            VCommit("push_back", this, 0, 1, x, r, cont)

(* The indexes offered to insert and erase: the ends and their neighbours *)
Indexes(k) == {i \in 0..k : i <= 1 \/ i >= k - 1}

(* v.insert(v.begin() + i, x); *)
VectorInsert ==
    /\ status = "running"
    /\ Len(hist) < MaxOpsVector
    /\ \E this \in 1..Len(live), x \in Values, cont \in BOOLEAN :
         \E i \in Indexes(VecSize(live[this])) :
            \E r \in {insert_one(VCtx, this, At(live[this], i), x)} :
               VCommit("insert", this, i, 1, x, r, cont)

(* v.erase(v.begin() + i); *)
VectorErase ==
    /\ status = "running"
    /\ Len(hist) < MaxOpsVector
    /\ \E this \in 1..Len(live), cont \in BOOLEAN :
         /\ ~VecEmpty(live[this])
         /\ \E i \in Indexes(VecSize(live[this]) - 1) :
              \E r \in {erase(VCtx, this, At(live[this], i))} :
                 VCommit("erase", this, i, 1, 0, r, cont)

(* v.resize(newsize, x); and v.resize(newsize); which passes T() *)
VectorResize ==
    /\ status = "running"
    /\ Len(hist) < MaxOpsVector
    /\ \E this \in 1..Len(live), newsize \in ResizeLens,
          x \in Values \cup {DefaultValue}, cont \in BOOLEAN :
         \E r \in {resize(VCtx, this, newsize, x)} :
            VCommit("resize", this, 0, newsize, x, r, cont)

(* v.clear(); *)
VectorClear ==
    /\ status = "running"
    /\ Len(hist) < MaxOpsVector
    /\ \E this \in 1..Len(live), cont \in BOOLEAN :
         \E r \in {clear(VCtx, this)} :
            VCommit("clear", this, 0, 0, 0, r, cont)

(* v.swap(rhs); *)
VectorSwap ==
    /\ status = "running"
    /\ Len(hist) < MaxOpsVector
    /\ \E this \in 1..Len(live), rhs \in 1..Len(live) :
         \E r \in {swap(VCtx, this, rhs)} :
            VCommit("swap", this, rhs, 0, 0, r, TRUE)

(* v goes out of scope *)
VectorDestroy ==
    /\ status = "running"
    /\ Len(hist) < MaxOpsVector
    /\ \E this \in 1..Len(live), cont \in BOOLEAN :
         \E r \in {Destructor(VCtx, this)} :
            VCommit("~vector", this, 0, 0, 0, r, cont)

-----------------------------------------------------------------------------
(* MemoryPoolAllocator::Allocate(size), size <= kMaxBytes, called from two  *)
(* execution contexts.  A context runs the statements of Allocate, Pop,     *)
(* Refill and ChunkAlloc in program order; the contexts interleave between  *)
(* the read and the write of a free-list head in Pop and between the read   *)
(* and the bump of freespacestart_ in ChunkAlloc.  The system heap grants   *)
(* every arena.                                                             *)
Started == Len(hist) + Cardinality({c \in Contexts : threads[c].pc # "idle"})

(* The external lock is free for context c to take *)
LockFreeAlways(c) == TRUE

LockFree(c) == lock = 0

PoolUnchanged == UNCHANGED <<poolvars, handler, heap, live, hist, status>>

(* The caller starts Allocate(size) *)
Enter(c) ==
    /\ status = "running"
    /\ threads[c].pc = "idle"
    /\ Started < MaxCalls
    /\ \E size \in ThreadSizes :
          threads' = [threads EXCEPT ![c] =
                         [Idle EXCEPT !.size = size,
                                      !.pc = IF sync THEN "lock"
                                             ELSE "empty"]]
    /\ UNCHANGED <<lock, sync>>
    /\ PoolUnchanged

(* With the lock in use, the call waits for it and takes it *)
Acquire(c) ==
    /\ status = "running"
    /\ threads[c].pc = "lock"
    /\ LockFree(c)
    /\ lock' = c
    /\ threads' = [threads EXCEPT ![c].pc = "empty"]
    /\ UNCHANGED sync
    /\ PoolUnchanged

(* if (freelist_[index].Empty()) return Refill(RoundUp(size));              *)
(* Refill: chunknums = 20                                                   *)
CheckEmpty(c) ==
    /\ status = "running"
    /\ threads[c].pc = "empty"
    /\ LET f == threads[c]
       IN threads' = [threads EXCEPT ![c] =
             IF freelist[GetFreelistIndex(f.size)] = NULL
             THEN [f EXCEPT !.pc = "chunk_read",
                            !.chunknums = kRefillChunks]
             ELSE [f EXCEPT !.pc = "pop_read", !.popped = TRUE]]
    /\ UNCHANGED <<lock, sync>>
    /\ PoolUnchanged

(* Pop: void *result = node_; *)
PopRead(c) ==
    /\ status = "running"
    /\ threads[c].pc = "pop_read"
    /\ LET f == threads[c]
       IN threads' = [threads EXCEPT ![c] =
             [f EXCEPT !.pc = "pop_write",
                       !.result = freelist[GetFreelistIndex(f.size)]]]
    /\ UNCHANGED <<lock, sync>>
    /\ PoolUnchanged

(* Pop: node_ = GetNextNode(result); return result;   Reading the link of a *)
(* null result either ends the process or yields whatever word is there.    *)
PopWrite(c) ==
    /\ status = "running"
    /\ threads[c].pc = "pop_write"
    /\ LET f == threads[c]
           index == GetFreelistIndex(f.size)
       IN IF f.result \in DOMAIN mem
          THEN /\ freelist' = [freelist EXCEPT ![index] = mem[f.result]]
               /\ status' = status
          ELSE \/ /\ status' = "crashed"
                  /\ freelist' = freelist
               \/ /\ status' = status
                  /\ \E word \in {NULL} \cup DOMAIN mem :
                        freelist' = [freelist EXCEPT ![index] = word]
    /\ threads' = [threads EXCEPT ![c].pc = "return"]
    /\ UNCHANGED <<mem, freespacestart, freespaceend, mallocoffset,
                   handler, heap, live, hist, lock, sync>>

(* ChunkAlloc: bytesleft = freespaceend_ - freespacestart_; in the two      *)
(* branches that carve, result = freespacestart_                            *)
ChunkRead(c) ==
    /\ status = "running"
    /\ threads[c].pc = "chunk_read"
    /\ LET f == threads[c]
           size == RoundUp(f.size)
           bytesneed == size * f.chunknums
           bytesleft == freespaceend - freespacestart
       IN threads' = [threads EXCEPT ![c] =
             IF bytesleft >= bytesneed
             THEN [f EXCEPT !.pc = "chunk_bump", !.bytesneed = bytesneed,
                            !.bytesleft = bytesleft,
                            !.result = freespacestart]
             ELSE IF bytesleft >= size
             THEN [f EXCEPT !.pc = "chunk_bump",
                            !.chunknums = bytesleft \div size,
                            !.bytesneed = (bytesleft \div size) * size,
                            !.bytesleft = bytesleft,
                            !.result = freespacestart]
             ELSE [f EXCEPT !.pc = "grow", !.bytesneed = bytesneed,
                            !.bytesleft = bytesleft]]
    /\ UNCHANGED <<lock, sync>>
    /\ PoolUnchanged

(* ChunkAlloc: freespacestart_ += bytesneed; return result; *)
ChunkBump(c) ==
    /\ status = "running"
    /\ threads[c].pc = "chunk_bump"
    /\ freespacestart' = freespacestart + threads[c].bytesneed
    /\ threads' = [threads EXCEPT ![c].pc = "thread"]
    /\ UNCHANGED <<freelist, mem, freespaceend, mallocoffset, handler, heap,
                   live, hist, status, lock, sync>>

(* ChunkAlloc: the remainder goes to its free list, the new arena is        *)
(* obtained and installed; return ChunkAlloc(size, chunknums);              *)
Grow(c) ==
    /\ status = "running"
    /\ threads[c].pc = "grow"
    /\ \E s1 \in {Salvage(Ctx(0), threads[c].bytesleft)} :
         \E s2 \in {SysMalloc(s1, BytesGet(s1, threads[c].bytesneed))} :
            /\ freelist' = s2.fl
            /\ mem' = s2.mem
            /\ freespacestart' = s2.result
            /\ mallocoffset' = mallocoffset + s2.req[1]
            /\ freespaceend' = s2.result + s2.req[1]
            /\ heap' = s2.heap
    /\ threads' = [threads EXCEPT ![c].pc = "chunk_read"]
    /\ UNCHANGED <<handler, live, hist, status, lock, sync>>

(* Refill: the blocks after the first are pushed on the list of the class *)
Thread(c) ==
    /\ status = "running"
    /\ threads[c].pc = "thread"
    /\ LET f == threads[c]
           size == RoundUp(f.size)
       IN \E s1 \in {ThreadChunks(Ctx(0), size, f.result + size, 1,
                                  f.chunknums)} :
             /\ freelist' = s1.fl
             /\ mem' = s1.mem
    /\ threads' = [threads EXCEPT ![c].pc = "return"]
    /\ UNCHANGED <<freespacestart, freespaceend, mallocoffset, handler, heap,
                   live, hist, status, lock, sync>>

(* Allocate returns; with the lock in use the caller releases it *)
Return(c) ==
    /\ status = "running"
    /\ threads[c].pc = "return"
    /\ hist' = Append(hist, [op |-> "Allocate", ctx |-> c,
                             size |-> threads[c].size,
                             ret |-> threads[c].result,
                             popped |-> threads[c].popped])
    /\ threads' = [threads EXCEPT ![c] = Idle]
    /\ lock' = IF sync THEN 0 ELSE lock
    /\ UNCHANGED <<poolvars, handler, heap, live, status, sync>>

NextThreads ==
    \/ \E c \in Contexts : Enter(c)
    \/ \E c \in Contexts : Acquire(c)
    \/ \E c \in Contexts : CheckEmpty(c)
    \/ \E c \in Contexts : PopRead(c)
    \/ \E c \in Contexts : PopWrite(c)
    \/ \E c \in Contexts : ChunkRead(c)
    \/ \E c \in Contexts : ChunkBump(c)
    \/ \E c \in Contexts : Grow(c)
    \/ \E c \in Contexts : Thread(c)
    \/ \E c \in Contexts : Return(c)

SpecThreads == InitThreads /\ [][NextThreads]_vars

(* The pool under a heap that grants or refuses as it likes *)
Next ==
    \/ Allocate(Sizes, PoolFails, MaxOps)
    \/ Deallocate(MaxOps)
    \/ SetMallocHandler(MaxOps, MaxSet)

Spec == Init /\ [][Next]_vars

(* The pool under a heap that grants every request *)
NextGrant ==
    \/ Allocate(SmallSizes, {0}, MaxOpsGrant)
    \/ Deallocate(MaxOpsGrant)

SpecGrant == Init /\ [][NextGrant]_vars

(* The pool under a heap that refuses every request *)
NextRefuse ==
    \/ Allocate(SmallSizes, {MaxSysCalls}, MaxOpsRefuse)
    \/ Deallocate(MaxOpsRefuse)
    \/ SetMallocHandler(MaxOpsRefuse, MaxSet)

SpecRefuse == Init /\ [][NextRefuse]_vars

(* RoundUp(bytes) and GetFreelistIndex(bytes), applied to a size *)
SizeCall(op, bytes, ret) ==
    [op |-> op, size |-> bytes, ptr |-> NULL, ret |-> ret,
     trace |-> <<>>, req |-> <<>>, popped |-> FALSE, depth |-> 0]

RoundUpCall ==
    /\ status = "running"
    /\ Len(hist) < MaxOpsSize
    /\ \E bytes \in SizeInputs :
         hist' = Append(hist, SizeCall("RoundUp", bytes, RoundUp(bytes)))
    /\ UNCHANGED <<poolvars, handler, heap, live, status, threadvars>>

GetFreelistIndexCall ==
    /\ status = "running"
    /\ Len(hist) < MaxOpsSize
    /\ \E bytes \in SizeInputs :
         hist' = Append(hist, SizeCall("GetFreelistIndex", bytes,
                                      GetFreelistIndex(bytes)))
    /\ UNCHANGED <<poolvars, handler, heap, live, status, threadvars>>

(* MallocAllocator with handlers that change the installed handler.  The    *)
(* history keeps, for each call, the handler installed when it began and    *)
(* the handlers it invoked.                                                 *)
OomCall(op, size, ptr, r) ==
    Call(op, size, ptr, r, TRUE)
       @@ [installed |-> handler, invoked |-> r.invoked]

OomSetMallocHandler ==
    /\ status = "running"
    /\ Len(hist) < MaxOpsHandler
    /\ \E func \in ActiveHandlerArgs :
         \E r \in {SetMallocHandlerOp(Ctx(0), func)} :
            /\ Commit(r, TRUE)
            /\ hist' = Append(hist, OomCall("SetMallocHandler", 0, func, r))
            /\ live' = live

OomAllocate ==
    /\ status = "running"
    /\ Len(hist) < MaxOpsHandler
    /\ \E size \in MallocSizes, fails \in AnyFails :
         \E r \in {MallocAllocate(Ctx(fails), size)} :
            /\ Commit(r, TRUE)
            /\ hist' = Append(hist, OomCall("Allocate", size, NULL, r))
            /\ live' = IF ~r.aborted /\ r.result # NULL
                       THEN Append(live, [ptr |-> r.result, size |-> size])
                       ELSE live

OomReallocate ==
    /\ status = "running"
    /\ Len(hist) < MaxOpsHandler
    /\ \E i \in 1..Len(live), newsize \in MallocSizes, fails \in AnyFails :
         \E r \in {MallocReallocate(Ctx(fails), live[i].ptr, live[i].size,
                                    newsize)} :
            /\ Commit(r, TRUE)
            /\ hist' = Append(hist,
                   OomCall("Reallocate", newsize, live[i].ptr, r))
            /\ live' = IF ~r.aborted /\ r.result # NULL
                       THEN Append(Remove(live, i),
                                   [ptr |-> r.result, size |-> newsize])
                       ELSE live

NextHandler ==
    \/ OomSetMallocHandler
    \/ OomAllocate
    \/ OomReallocate

SpecHandler == Init /\ [][NextHandler]_vars

(* The raw allocator *)
NextMalloc ==
    \/ RawAllocate
    \/ RawDeallocate
    \/ RawReallocate
    \/ SetMallocHandler(MaxOpsMalloc, MaxOpsMalloc)

SpecMalloc == Init /\ [][NextMalloc]_vars

(* The pool with Reallocate, no handler installed *)
NextRealloc ==
    \/ Allocate(ReallocSizes, ReallocFails, MaxOpsRealloc)
    \/ Reallocate(ReallocSizes, ReallocFails, MaxOpsRealloc)

SpecRealloc == Init /\ [][NextRealloc]_vars

(* AllocatorWrapper<int, A> over either allocator *)
NextWrapper ==
    \/ AllocatorWrapperAllocate
    \/ AllocatorWrapperAllocateOne
    \/ AllocatorWrapperDeallocate
    \/ AllocatorWrapperDeallocateOne

SpecWrapper == Init /\ [][NextWrapper]_vars

(* vector<int> over the pool *)
NextVector ==
    \/ VectorDefaultCtor
    \/ VectorLenValue
    \/ VectorCopy
    \/ VectorAssign
    \/ VectorPushBack
    \/ VectorInsert
    \/ VectorErase
    \/ VectorResize
    \/ VectorClear

SpecVector == Init /\ [][NextVector]_vars

(* vector<int> over the pool, with swap and the end of a vector's life *)
NextVectorLife ==
    \/ VectorDefaultCtor
    \/ VectorLenValue
    \/ VectorCopy
    \/ VectorAssign
    \/ VectorPushBack
    \/ VectorInsert
    \/ VectorErase
    \/ VectorResize
    \/ VectorClear
    \/ VectorSwap
    \/ VectorDestroy

SpecVectorLife == Init /\ [][NextVectorLife]_vars

(* The size arithmetic of the pool *)
NextSize ==
    \/ RoundUpCall
    \/ GetFreelistIndexCall

SpecSize == Init /\ [][NextSize]_vars

-----------------------------------------------------------------------------
(* Vocabulary of the properties *)

Last == hist[Len(hist)]

IsCall(c, op) == c.op = op

Small(c) == c.size <= kMaxBytes

Returned(c) == c.ret # NoRet

Granted(c) == \E k \in 1..Len(c.trace) : c.trace[k] = "sys_ok"

Refusals(c) == Len(SelectSeq(c.trace, LAMBDA e : e = "sys_fail"))

Invocations(c) == Len(SelectSeq(c.trace, LAMBDA e : e = "handler"))

(* The extent of a block of the pool *)
Extent(b) == RoundUp(b.size)

(* The nodes of free list i, following the links from the head *)
RECURSIVE Chain(_, _)
Chain(node, seen) ==
    IF node = NULL \/ node \in seen
    THEN seen
    ELSE Chain(mem[node], seen \cup {node})

Nodes(i) == Chain(freelist[i], {})

Classes == 0..(kFreeListNum - 1)

-----------------------------------------------------------------------------
(* C1: no two blocks the caller holds at the same time overlap: a block     *)
(* Allocate(s) returns, 0 < s <= 128, is disjoint from the RoundUp-byte     *)
(* extent of every other small block that is live.                          *)
C1_NoDuplicateLive ==
    \A i, j \in 1..Len(live) :
        (i < j /\ live[i].size <= kMaxBytes /\ live[j].size <= kMaxBytes)
        => ~Overlap(live[i].ptr, Extent(live[i]),
                    live[j].ptr, Extent(live[j]))

-----------------------------------------------------------------------------
(* C2 as stated: an Allocate that finds its class list non-empty returns    *)
(* the most recently deallocated block of that class that no Allocate has   *)
(* returned since.                                                          *)
SameClass(s, t) == GetFreelistIndex(s) = GetFreelistIndex(t)

Unclaimed(j, k) ==
    /\ IsCall(hist[j], "Deallocate")
    /\ \A m \in (j + 1)..(k - 1) :
          ~(IsCall(hist[m], "Allocate") /\ hist[m].ret = hist[j].ptr)

C2_MostRecentlyFreed ==
    \A k \in 1..Len(hist) :
        (IsCall(hist[k], "Allocate") /\ hist[k].popped)
        => \A j \in 1..(k - 1) :
              ( /\ Unclaimed(j, k)
                /\ SameClass(hist[j].size, hist[k].size)
                /\ \A n \in (j + 1)..(k - 1) :
                      ~(Unclaimed(n, k)
                        /\ SameClass(hist[n].size, hist[k].size)) )
              => hist[k].ret = hist[j].ptr

(* C2 as amended: LIFO over consecutive calls.  Deallocate(p, s) directly   *)
(* followed by an Allocate of that class returns p; Deallocate(p1, s),      *)
(* Deallocate(p2, s), Allocate, Allocate of one class, with no call in      *)
(* between, return p2 and then p1.                                          *)
C2_LifoConsecutive ==
    \A k \in 2..Len(hist) :
        /\ ( /\ IsCall(hist[k - 1], "Deallocate")
             /\ IsCall(hist[k], "Allocate")
             /\ Small(hist[k])
             /\ SameClass(hist[k - 1].size, hist[k].size)
             /\ Returned(hist[k]) )
           => hist[k].ret = hist[k - 1].ptr
        /\ ( /\ k >= 4
             /\ IsCall(hist[k - 3], "Deallocate")
             /\ IsCall(hist[k - 2], "Deallocate")
             /\ IsCall(hist[k - 1], "Allocate")
             /\ IsCall(hist[k], "Allocate")
             /\ Small(hist[k])
             /\ \A m \in (k - 3)..(k - 1) :
                   SameClass(hist[m].size, hist[k].size)
             /\ Returned(hist[k]) )
           => /\ hist[k - 1].ret = hist[k - 2].ptr
              /\ hist[k].ret = hist[k - 3].ptr

C2_Witness ==
    /\ Len(hist) >= 4
    /\ LET k == Len(hist)
       IN /\ IsCall(hist[k - 3], "Deallocate")
          /\ IsCall(hist[k - 2], "Deallocate")
          /\ IsCall(hist[k - 1], "Allocate")
          /\ IsCall(hist[k], "Allocate")
          /\ \A m \in (k - 3)..(k - 1) :
                SameClass(hist[m].size, hist[k].size)
          /\ hist[k - 3].ptr # hist[k - 2].ptr
          /\ hist[k].ret = hist[k - 3].ptr

-----------------------------------------------------------------------------
(* C3: a small Allocate that returns, and that needed no arena or was       *)
(* granted one by the system heap, returns a non-null pointer.              *)
C3_NonNull ==
    \A k \in 1..Len(hist) :
        ( /\ IsCall(hist[k], "Allocate")
          /\ Small(hist[k])
          /\ Returned(hist[k])
          /\ (hist[k].trace = <<>> \/ Granted(hist[k])) )
        => hist[k].ret # NULL

C3_Witness ==
    /\ Len(hist) >= 2
    /\ LET k == Len(hist)
       IN /\ IsCall(hist[k - 1], "Allocate") /\ Small(hist[k - 1])
          /\ hist[k - 1].trace = <<"sys_fail", "sys_ok">>
          /\ hist[k - 1].ret # NULL
          /\ IsCall(hist[k], "Allocate") /\ Small(hist[k])
          /\ hist[k].trace = <<>> /\ ~hist[k].popped
          /\ hist[k].ret # NULL /\ Returned(hist[k])

-----------------------------------------------------------------------------
(* C4: with a system heap that returns multiples of kAlign, the arena start, *)
(* every node of every free list and every address a small Allocate returns *)
(* are multiples of kAlign.                                                 *)
C4_Aligned ==
    /\ freespacestart % kAlign = 0
    /\ \A i \in Classes : \A n \in Nodes(i) : n % kAlign = 0
    /\ \A k \in 1..Len(hist) :
          (IsCall(hist[k], "Allocate") /\ Small(hist[k]) /\ Returned(hist[k]))
          => hist[k].ret % kAlign = 0

C4_Witness ==
    /\ Len(hist) >= 1
    /\ IsCall(Last, "Allocate")
    /\ Last.size % kAlign # 0
    /\ Returned(Last) /\ Last.ret # NULL
    /\ Nodes(GetFreelistIndex(Last.size)) # {}
    /\ freespacestart # NULL
    /\ \E i \in Classes : i # GetFreelistIndex(Last.size) /\ Nodes(i) # {}

-----------------------------------------------------------------------------
(* C5: Allocate(s) with s > kMaxBytes is MallocAllocator::Allocate(s): the   *)
(* free lists, the arena bounds and mallocoffset_ are unchanged, and the    *)
(* block it returns is a fresh region of the system heap, outside the arena *)
(* and outside every free block.                                            *)
LargeStep(op) ==
    /\ Len(hist') = Len(hist) + 1
    /\ IsCall(hist'[Len(hist')], op)
    /\ ~Small(hist'[Len(hist')])

C5_LargeAllocate ==
    [][LargeStep("Allocate") =>
         LET c == hist'[Len(hist')]
         IN /\ poolvars' = poolvars
            /\ \E f \in AnyFails :
                 LET r == MallocAllocate(Ctx(f), c.size)
                 IN /\ heap' = r.heap
                    /\ c.trace = r.trace
                    /\ c.ret = IF r.aborted THEN NoRet ELSE r.result
            /\ (Returned(c) /\ c.ret # NULL) =>
                 /\ [base |-> c.ret, size |-> c.size] \in heap' \ heap
                 /\ ~Overlap(c.ret, c.size, freespacestart,
                             freespaceend - freespacestart)
                 /\ \A i \in Classes : \A n \in Nodes(i) :
                       ~Overlap(c.ret, c.size, n, kAlign * (i + 1))]_vars

C5_Witness ==
    /\ Len(hist) >= 1
    /\ IsCall(Last, "Allocate") /\ ~Small(Last)
    /\ Returned(Last) /\ Last.ret # NULL
    /\ freespacestart < freespaceend
    /\ \E i \in Classes : freelist[i] # NULL

-----------------------------------------------------------------------------
(* C6: Deallocate(p, s) with s > kMaxBytes frees p to the system heap and   *)
(* changes no free list, arena bound or mallocoffset_.                      *)
C6_LargeDeallocate ==
    [][LargeStep("Deallocate") =>
         LET c == hist'[Len(hist')]
         IN /\ poolvars' = poolvars
            /\ heap' = {r \in heap : r.base # c.ptr}
            /\ heap' # heap]_vars

C6_Witness ==
    /\ Len(hist) >= 1
    /\ IsCall(Last, "Deallocate") /\ ~Small(Last)
    /\ freespacestart < freespaceend
    /\ \E i \in Classes : freelist[i] # NULL

-----------------------------------------------------------------------------
(* The handler installed when call k started: the argument of the latest    *)
(* SetMallocHandler before it, null when there is none.                     *)
InstalledAt(k) ==
    LET S == {j \in 1..(k - 1) : IsCall(hist[j], "SetMallocHandler")}
    IN IF S = {} THEN NULL
       ELSE hist[CHOOSE j \in S : \A m \in S : m <= j].ptr

RawCall(c) == IsCall(c, "Allocate") \/ IsCall(c, "Reallocate")

-----------------------------------------------------------------------------
(* C8: with no handler installed, an Allocate or Reallocate of              *)
(* MallocAllocator whose first system call is refused aborts the process:   *)
(* there is no second system call and nothing is returned.                  *)
C8_AbortWithoutHandler ==
    \A k \in 1..Len(hist) :
        ( /\ RawCall(hist[k])
          /\ InstalledAt(k) = NULL
          /\ hist[k].trace # <<>>
          /\ hist[k].trace[1] = "sys_fail" )
        => /\ k = Len(hist)
           /\ status = "aborted"
           /\ hist[k].trace = <<"sys_fail">>
           /\ ~Returned(hist[k])

C8_Witness ==
    /\ Len(hist) >= 3
    /\ status = "aborted"
    /\ IsCall(Last, "Reallocate")
    /\ \E j \in 1..(Len(hist) - 1) :
          IsCall(hist[j], "SetMallocHandler") /\ hist[j].ptr # NULL

-----------------------------------------------------------------------------
(* C9: the handler is null until the first SetMallocHandler; every          *)
(* SetMallocHandler(f) installs f and returns the handler installed just     *)
(* before it, so it returns the argument of the previous setter call, and   *)
(* SetMallocHandler(SetMallocHandler(f)) leaves the handler as it was       *)
(* before; no other call changes the handler.                               *)
C9_HandlerContract ==
    /\ handler = InstalledAt(Len(hist) + 1)
    /\ \A k \in 1..Len(hist) :
          IsCall(hist[k], "SetMallocHandler")
          => hist[k].ret = InstalledAt(k)
    /\ \A k \in 2..Len(hist) :
          ( /\ IsCall(hist[k - 1], "SetMallocHandler")
            /\ IsCall(hist[k], "SetMallocHandler")
            /\ hist[k].ptr = hist[k - 1].ret
            /\ k = Len(hist) )
          => handler = InstalledAt(k - 1)

C9_Witness ==
    /\ Len(hist) >= 4
    /\ LET k == Len(hist)
       IN /\ IsCall(hist[k - 3], "SetMallocHandler")
          /\ hist[k - 3].ptr # NULL
          /\ RawCall(hist[k - 2])
          /\ hist[k - 2].trace # <<>>
          /\ IsCall(hist[k - 1], "SetMallocHandler")
          /\ hist[k - 1].ptr \notin {NULL, hist[k - 3].ptr}
          /\ IsCall(hist[k], "SetMallocHandler")
          /\ hist[k].ptr = hist[k - 1].ret
          /\ handler = hist[k - 3].ptr

-----------------------------------------------------------------------------
(* C10: with a handler installed, every system call refused and no free     *)
(* block of the class or above to requisition, a small Allocate returns     *)
(* null.                                                                    *)
C10_NullOnExhaustion ==
    \A k \in 1..Len(hist) :
        ( /\ IsCall(hist[k], "Allocate")
          /\ Small(hist[k])
          /\ InstalledAt(k) # NULL
          /\ Refusals(hist[k]) = MaxSysCalls )
        => /\ Returned(hist[k])
           /\ hist[k].ret = NULL

-----------------------------------------------------------------------------
(* The blocks of the free lists, each with the size of its class, and the   *)
(* small blocks the caller holds, each with the size of its class.          *)
FreeBlocks ==
    UNION {{[ptr |-> n, size |-> kAlign * (i + 1)] : n \in Nodes(i)} :
              i \in Classes}

LiveBlocks ==
    {[ptr |-> live[k].ptr, size |-> Extent(live[k])] :
        k \in {m \in 1..Len(live) : live[m].size <= kMaxBytes}}

(* The bytes of block b are memory the system heap granted *)
Owned(b) ==
    \E r \in heap : r.base <= b.ptr /\ b.ptr + b.size <= r.base + r.size

(* The call a step has just completed *)
Done == hist'[Len(hist')]

Step(op) == Len(hist') = Len(hist) + 1 /\ IsCall(Done, op)

SmallStep(op) == Step(op) /\ Small(Done)

(* C11: in every state each block on the free list of class c spans exactly *)
(* 8 * (c + 1) bytes and each small block the caller holds spans exactly    *)
(* RoundUp(s) bytes: those bytes are granted memory and belong to no other  *)
(* block and not to the arena; and a block a small Allocate returns was the *)
(* head of the free list of its class or is carved from the arena.          *)
C11_SizeAndOrigin ==
    [][ /\ \A b \in FreeBlocks' \cup LiveBlocks' :
              /\ Owned(b)'
              /\ ~Overlap(b.ptr, b.size, freespacestart',
                          freespaceend' - freespacestart')
        /\ \A b1, b2 \in FreeBlocks' \cup LiveBlocks' :
              b1 # b2 => ~Overlap(b1.ptr, b1.size, b2.ptr, b2.size)
        /\ (SmallStep("Allocate") /\ Returned(Done)) =>
              LET sz == RoundUp(Done.size)
              IN IF Done.popped
                 THEN Done.ret = freelist[GetFreelistIndex(Done.size)]
                 ELSE /\ Done.ret # NULL
                      /\ Done.ret < freespacestart'
                      /\ (freespacestart' - Done.ret) % sz = 0
                      /\ \E r \in heap' :
                            /\ r.base <= Done.ret
                            /\ freespaceend' <= r.base + r.size ]_vars

-----------------------------------------------------------------------------
(* C12: RoundUp is idempotent: RoundUp(RoundUp(s)) = RoundUp(s) for every    *)
(* size s, also where s + 7 wraps the word; the value is a multiple of      *)
(* kAlign.                                                                  *)
C12_RoundUpIdempotent ==
    \A k \in 1..Len(hist) :
        IsCall(hist[k], "RoundUp")
        => /\ RoundUp(hist[k].ret) = hist[k].ret
           /\ hist[k].ret % kAlign = 0

C12_Witness ==
    /\ Len(hist) >= 1
    /\ IsCall(Last, "RoundUp")
    /\ Last.size + kAlign - 1 >= SizeMod
    /\ Last.size % kAlign # 0
    /\ Last.ret < Last.size

-----------------------------------------------------------------------------
(* ceil(n / kAlign) *)
Ceil(n) == CHOOSE q \in 0..n : kAlign * q >= n /\ kAlign * (q - 1) < n

(* C13: for every size n, 0 < n <= 128, GetFreelistIndex(n) is              *)
(* ceil(n / 8) - 1 = RoundUp(n) / 8 - 1, an index of the table whose class  *)
(* holds blocks of RoundUp(n) bytes, and every size with the same RoundUp   *)
(* value has the same index.                                                *)
C13_SizeClass ==
    \A k \in 1..Len(hist) :
        ( /\ IsCall(hist[k], "GetFreelistIndex")
          /\ 0 < hist[k].size
          /\ hist[k].size <= kMaxBytes )
        => /\ hist[k].ret = Ceil(hist[k].size) - 1
           /\ hist[k].ret = RoundUp(hist[k].size) \div kAlign - 1
           /\ hist[k].ret \in Classes
           /\ kAlign * (hist[k].ret + 1) = RoundUp(hist[k].size)
           /\ \A m \in 1..kMaxBytes :
                 RoundUp(m) = RoundUp(hist[k].size)
                 => GetFreelistIndex(m) = hist[k].ret

C13_Witness ==
    /\ Len(hist) >= 1
    /\ IsCall(Last, "GetFreelistIndex")
    /\ Last.size % kAlign # 0
    /\ Last.size < kMaxBytes
    /\ Last.ret = kFreeListNum - 1

-----------------------------------------------------------------------------
(* C14: Reallocate(p, oldsize, newsize) with RoundUp(oldsize) =              *)
(* RoundUp(newsize) returns p, changes no free list, arena bound or         *)
(* mallocoffset_, and makes no call to the system heap.                     *)
C14_ReallocateSameClass ==
    [][(Step("Reallocate") /\ RoundUp(Done.oldsize) = RoundUp(Done.size))
       => /\ Done.ret = Done.ptr
          /\ poolvars' = poolvars
          /\ heap' = heap
          /\ handler' = handler
          /\ Done.trace = <<>>
          /\ status' = "running"]_vars

C14_Witness ==
    /\ Len(hist) >= 1
    /\ IsCall(Last, "Reallocate")
    /\ Last.oldsize # Last.size
    /\ RoundUp(Last.oldsize) = RoundUp(Last.size)
    /\ Small(Last)
    /\ Last.ret = Last.ptr
    /\ freelist[GetFreelistIndex(Last.size)] # NULL

-----------------------------------------------------------------------------
(* C15: Reallocate(p, oldsize, newsize) with RoundUp(oldsize) #              *)
(* RoundUp(newsize) leaves the state and returns the pointer of             *)
(* Deallocate(p, oldsize) followed by Allocate(newsize), and writes nothing *)
(* into the block it returns.                                               *)
C15_ReallocateOtherClass ==
    [][(Step("Reallocate") /\ RoundUp(Done.oldsize) # RoundUp(Done.size))
       => /\ \E f \in ReallocFails :
                LET d == PoolDeallocate(Ctx(f), Done.ptr, Done.oldsize)
                    a == PoolAllocate(d, Done.size)
                IN /\ poolvars' = <<a.fl, a.mem, a.start, a.end, a.off>>
                   /\ heap' = a.heap
                   /\ Done.trace = a.trace
                   /\ Done.ret = IF a.aborted THEN NoRet ELSE a.result
          /\ (Returned(Done) /\ Done.ret # Done.ptr)
             => /\ (Done.ret \in DOMAIN mem') = (Done.ret \in DOMAIN mem)
                /\ Done.ret \in DOMAIN mem
                   => mem'[Done.ret] = mem[Done.ret]]_vars

C15_Witness ==
    /\ Len(hist) >= 1
    /\ IsCall(Last, "Reallocate")
    /\ RoundUp(Last.oldsize) # RoundUp(Last.size)
    /\ Last.oldsize <= kMaxBytes
    /\ Small(Last)
    /\ Last.trace = <<"sys_fail">>
    /\ Last.ret = Last.ptr

-----------------------------------------------------------------------------
(* What a small Allocate that found its list empty starts from *)
BytesLeft == freespaceend - freespacestart

Min(a, b) == IF a <= b THEN a ELSE b

RefillStep == SmallStep("Allocate") /\ ~Done.popped

(* C16: when the refill of a small Allocate finds bytesleft >= size bytes   *)
(* in the arena, it carves n = min(20, bytesleft / size) blocks: the call   *)
(* returns the old arena start, the arena start advances by n * size, n - 1 *)
(* blocks are threaded, no system call is made, and the arena end,          *)
(* mallocoffset_ and every other free list are unchanged.                   *)
C16_CarveFromArena ==
    [][(RefillStep /\ BytesLeft >= RoundUp(Done.size))
       => LET sz == RoundUp(Done.size)
              n == Min(kRefillChunks, BytesLeft \div sz)
              index == GetFreelistIndex(Done.size)
          IN /\ Returned(Done) => Done.ret = freespacestart
             /\ freespacestart' = freespacestart + n * sz
             /\ freespaceend' = freespaceend
             /\ mallocoffset' = mallocoffset
             /\ heap' = heap
             /\ Done.trace = <<>>
             /\ \A i \in Classes :
                   IF i = index
                   THEN Cardinality(Nodes(i)') = n - 1
                   ELSE freelist'[i] = freelist[i]
      ]_vars

C16_Witness ==
    /\ Len(hist) >= 2
    /\ IsCall(Last, "Allocate") /\ Small(Last)
    /\ ~Last.popped /\ Last.trace = <<>>
    /\ Returned(Last) /\ Last.ret # NULL
    /\ Cardinality(Nodes(GetFreelistIndex(Last.size))) \in
          1..(kRefillChunks - 2)
    /\ BytesLeft = 0

-----------------------------------------------------------------------------
(* A free list other than the one being refilled is left alone, or loses    *)
(* its head to the requisition after a refused arena request.               *)
LeftOrRequisitioned(i) ==
    \/ freelist'[i] = freelist[i]
    \/ /\ Done.trace = <<"sys_fail">>
       /\ freelist[i] # NULL
       /\ freelist'[i] = mem[freelist[i]]

(* C17: when a refill replaces the arena while it holds r bytes, r < size,  *)
(* r is a multiple of 8; if r >= 8 the remainder [start, start + r) becomes *)
(* the head of the free list whose block size is exactly r, linked to the   *)
(* old head; if r < 8 nothing is pushed.                                    *)
C17_Salvage ==
    [][(RefillStep /\ BytesLeft < RoundUp(Done.size))
       => LET r == BytesLeft
              index == GetFreelistIndex(Done.size)
          IN /\ r >= 0
             /\ r % kAlign = 0
             /\ \A i \in Classes \ {index} :
                   IF kAlign * (i + 1) = r
                   THEN /\ freelist'[i] = freespacestart
                        /\ mem'[freespacestart] = freelist[i]
                   ELSE LeftOrRequisitioned(i)
      ]_vars

C17_Witness ==
    /\ Len(hist) >= 3
    /\ \A k \in 1..Len(hist) : IsCall(hist[k], "Allocate")
    /\ Last.trace = <<"sys_ok">>
    /\ Returned(Last) /\ Last.ret # NULL
    /\ \E i \in Classes :
          /\ i < GetFreelistIndex(Last.size)
          /\ freelist[i] # NULL
          /\ mem[freelist[i]] = NULL
          /\ \A k \in 1..Len(hist) : GetFreelistIndex(hist[k].size) # i

-----------------------------------------------------------------------------
(* A call that replaced the arena by a request to the system heap: it made  *)
(* a request and ended neither in a requisition (one refused call) nor in   *)
(* an abort (two refused calls with no handler to invoke).                  *)
Grew(c) ==
    /\ IsCall(c, "Allocate") /\ Small(c)
    /\ c.req # <<>>
    /\ c.trace \notin {<<"sys_fail">>, <<"sys_fail", "sys_fail">>}

RECURSIVE ArenaSum(_)
ArenaSum(k) ==
    IF k = 0 THEN 0
    ELSE ArenaSum(k - 1) + (IF Grew(hist[k]) THEN hist[k].req[1] ELSE 0)

ArenaTotal == ArenaSum(Len(hist))

(* C18: a refill that must replace the arena for block size sz requests     *)
(* exactly 2 * sz * 20 + RoundUp(mallocoffset_ / 16) bytes in each of its   *)
(* system calls; mallocoffset_ is the sum of the sizes of the arenas        *)
(* requested so far, grows by the requested size with each growth and is    *)
(* unchanged by a requisition and by every other call; the first arena for  *)
(* sz = 8 is 320 bytes, and for one sz the requested sizes never decrease.  *)
C18_ArenaGrowth ==
    [][ /\ mallocoffset' = ArenaTotal'
        /\ IF RefillStep
           THEN LET sz == RoundUp(Done.size)
                    bytesget == 2 * sz * kRefillChunks
                                  + RoundUp(mallocoffset \div 16)
                IN /\ (Done.req # <<>>) = (BytesLeft < sz)
                   /\ \A k \in 1..Len(Done.req) : Done.req[k] = bytesget
                   /\ mallocoffset' = IF Grew(Done)
                                      THEN mallocoffset + bytesget
                                      ELSE mallocoffset
                   /\ (Done.req # <<>> /\ sz = kAlign /\ mallocoffset = 0)
                      => Done.req[1] = 320
                   /\ \A j \in 1..Len(hist) :
                         ( /\ IsCall(hist[j], "Allocate")
                           /\ RoundUp(hist[j].size) = sz
                           /\ hist[j].req # <<>>
                           /\ Done.req # <<>> )
                         => hist[j].req[1] <= Done.req[1]
           ELSE mallocoffset' = mallocoffset ]_vars

C18_Witness ==
    /\ Len(hist) >= 2
    /\ Grew(Last)
    /\ Last.req[1] > 2 * RoundUp(Last.size) * kRefillChunks
    /\ \E j \in 1..(Len(hist) - 1) :
          /\ IsCall(hist[j], "Allocate")
          /\ RoundUp(hist[j].size) = RoundUp(Last.size)
          /\ hist[j].req # <<>>
          /\ hist[j].trace = <<"sys_fail">>
    /\ mallocoffset > Last.req[1]

-----------------------------------------------------------------------------
(* C19: when the system heap refuses the new arena of a refill, the first   *)
(* non-empty list among the classes of size, size + 8, ..., 128 loses its   *)
(* head; that block, of i bytes, becomes the arena, i / size >= 1 blocks    *)
(* are carved from it, and no further request is made.  Only when all       *)
(* these lists are empty is the arena requested again, through              *)
(* MallocAllocator::Allocate.                                               *)
C19_Requisition ==
    [][( /\ RefillStep
         /\ BytesLeft < RoundUp(Done.size)
         /\ Done.trace[1] = "sys_fail" )
       => LET sz == RoundUp(Done.size)
              index == GetFreelistIndex(Done.size)
              C == {i \in Classes : i >= index /\ freelist[i] # NULL}
          IN IF C # {}
             THEN LET i == SetMin(C)
                      block == freelist[i]
                      n == (kAlign * (i + 1)) \div sz
                  IN /\ Done.trace = <<"sys_fail">>
                     /\ n >= 1
                     /\ Returned(Done) => Done.ret = block
                     /\ freelist'[i] = mem[block]
                     /\ freespacestart' = block + n * sz
                     /\ freespaceend' = block + kAlign * (i + 1)
                     /\ mallocoffset' = mallocoffset
                     /\ heap' = heap
                     /\ \A j \in Classes :
                           /\ j = index => Cardinality(Nodes(j)') = n - 1
                           /\ (j > index /\ j # i)
                              => freelist'[j] = freelist[j]
             ELSE /\ Len(Done.trace) >= 2
                  /\ Done.req[2] = Done.req[1]
      ]_vars

C19_Witness ==
    /\ Len(hist) >= 3
    /\ IsCall(Last, "Allocate") /\ Small(Last)
    /\ Last.trace = <<"sys_fail">>
    /\ Returned(Last) /\ Last.ret # NULL
    /\ freespaceend - Last.ret >= 2 * RoundUp(Last.size)
    /\ freelist[GetFreelistIndex(Last.size)] # NULL
    /\ \E j \in Classes :
          /\ kAlign * (j + 1) > freespaceend - Last.ret
          /\ freelist[j] # NULL

-----------------------------------------------------------------------------
(* C20: when a small Allocate finds its list empty and k blocks of          *)
(* sz = RoundUp(s) are carved at address c, it returns c and the list of    *)
(* the class then holds exactly c + sz, ..., c + (k - 1) * sz, pushed in    *)
(* that order (nothing when k = 1); every other list is as it was, but for  *)
(* the salvaged remainder and a requisitioned block.                        *)
C20_RefillResult ==
    [][(RefillStep /\ Returned(Done))
       => LET sz == RoundUp(Done.size)
              index == GetFreelistIndex(Done.size)
              c == Done.ret
              k == (freespacestart' - c) \div sz
          IN /\ (freespacestart' - c) % sz = 0
             /\ k \in 1..kRefillChunks
             /\ \A m \in 1..(k - 1) :
                   mem'[c + m * sz] = IF m = 1 THEN NULL
                                      ELSE c + (m - 1) * sz
             /\ \A j \in Classes :
                   IF j = index
                   THEN /\ freelist'[j] = IF k = 1 THEN NULL
                                          ELSE c + (k - 1) * sz
                        /\ Nodes(j)' = {c + m * sz : m \in 1..(k - 1)}
                   ELSE \/ LeftOrRequisitioned(j)
                        \/ /\ BytesLeft = kAlign * (j + 1)
                           /\ BytesLeft < sz
                           /\ freelist'[j] = freespacestart
      ]_vars

C20_Witness ==
    /\ Len(hist) >= 2
    /\ IsCall(Last, "Allocate") /\ Small(Last)
    /\ ~Last.popped
    /\ Returned(Last) /\ Last.ret # NULL
    /\ freespacestart = Last.ret + 3 * RoundUp(Last.size)
    /\ Nodes(GetFreelistIndex(Last.size)) =
          {Last.ret + RoundUp(Last.size), Last.ret + 2 * RoundUp(Last.size)}

-----------------------------------------------------------------------------
(* C21: every Allocate runs a bounded number of steps: a refill activates   *)
(* ChunkAlloc once or twice (the call of Refill and at most one recursive   *)
(* call), whatever the arena, the free lists and the system heap do; the    *)
(* call makes at most 1 + 1 + max_retries system calls and at most          *)
(* max_retries handler calls.                                               *)
C21_BoundedRefill ==
    \A k \in 1..Len(hist) :
        IsCall(hist[k], "Allocate")
        => /\ hist[k].depth <= 2
           /\ (Small(hist[k]) /\ ~hist[k].popped) => hist[k].depth >= 1
           /\ (hist[k].req # <<>> /\ Returned(hist[k]))
              => hist[k].depth = (IF Small(hist[k]) THEN 2 ELSE 0)
           /\ Len(hist[k].req) <= 2 + max_retries
           /\ Invocations(hist[k]) <= max_retries

C21_Witness ==
    /\ Len(hist) >= 2
    /\ IsCall(Last, "Allocate") /\ Small(Last)
    /\ Last.depth = 2
    /\ Refusals(Last) = 2 + max_retries
    /\ Invocations(Last) = max_retries
    /\ Returned(Last)
    /\ freespacestart < freespaceend

-----------------------------------------------------------------------------
(* C22: after every call freespacestart_ <= freespaceend_; a call that does *)
(* not ask the system for a new arena leaves the arena end and does not     *)
(* lower its start; and a new arena is asked for only by the Allocate of a  *)
(* small size (called directly or by Reallocate) that found the list of its *)
(* class empty and fewer bytes in the arena than one block.                 *)
C22_ArenaInvariant ==
    [][ /\ freespacestart' <= freespaceend'
        /\ IF Len(hist') = Len(hist) + 1 /\ Done.depth >= 1 /\ Done.req # <<>>
           THEN /\ IsCall(Done, "Allocate") \/ IsCall(Done, "Reallocate")
                /\ Small(Done)
                /\ freelist[GetFreelistIndex(Done.size)] = NULL
                /\ BytesLeft < RoundUp(Done.size)
           ELSE /\ freespaceend' = freespaceend
                /\ freespacestart' >= freespacestart ]_vars

C22_Witness ==
    /\ Len(hist) >= 3
    /\ LET k == Len(hist)
       IN /\ IsCall(hist[k - 1], "Allocate") /\ Small(hist[k - 1])
          /\ ~hist[k - 1].popped /\ hist[k - 1].req = <<>>
          /\ IsCall(hist[k], "Allocate") /\ Small(hist[k])
          /\ hist[k].req # <<>> /\ Granted(hist[k])
          /\ Returned(hist[k])
          /\ hist[k - 1].ret < hist[k].ret
          /\ freespacestart < freespaceend

-----------------------------------------------------------------------------
(* AllocatorWrapper *)

WrapperStep(op) == Len(hist') = Len(hist) + 1 /\ IsCall(Done, op)

Untouched == UNCHANGED <<poolvars, handler, heap, status>>

(* The step leaves the allocator as the operation result d leaves it *)
SameAs(d) ==
    /\ freelist' = d.fl
    /\ mem' = d.mem
    /\ freespacestart' = d.start
    /\ freespaceend' = d.end
    /\ mallocoffset' = d.off
    /\ handler' = d.handler
    /\ heap' = d.heap
    /\ Done.trace = d.trace
    /\ Done.req = d.req
    /\ (status' = "aborted") = d.aborted
    /\ (status' = "crashed") => d.ub
    /\ Returned(Done) => Done.ret = d.result

(* C23: Allocate(0) of the wrapper returns null, makes no call to the       *)
(* allocator and changes nothing of it, over MemoryPoolAllocator and over   *)
(* MallocAllocator; Deallocate(ptr, 0) makes no call either.                *)
C23_ZeroObjects ==
    [][ (Len(hist') = Len(hist) + 1 /\ Done.form = "n" /\ Done.n = 0)
        => /\ Done.calls = <<>>
           /\ Untouched
           /\ Done.trace = <<>>
           /\ IsCall(Done, "Allocate") => Done.ret = NULL ]_vars

C23_Witness ==
    /\ \E k \in 1..Len(hist) :
          /\ IsCall(hist[k], "Allocate") /\ hist[k].n = 0
          /\ hist[k].alloc = "MemoryPoolAllocator"
          /\ hist[k].ret = NULL
    /\ \E k \in 1..Len(hist) :
          /\ IsCall(hist[k], "Allocate") /\ hist[k].n = 0
          /\ hist[k].alloc = "MallocAllocator"
          /\ hist[k].ret = NULL
    /\ IsCall(Last, "Deallocate") /\ Last.form = "n" /\ Last.n = 0
    /\ freespacestart < freespaceend
    /\ status = "running"

(* C24: for n >= 1 Allocate(n) makes the one call A::Allocate(n * sizeof(T)) *)
(* and returns its result, Deallocate(ptr, n) makes the one call            *)
(* A::Deallocate(ptr, n * sizeof(T)), the forms without n act as n = 1, and *)
(* the allocator is left exactly as the direct call leaves it.              *)
C24_UnitTranslation ==
    [][ /\ (WrapperStep("Allocate") /\ Done.n >= 1)
           => /\ Done.calls = << [op |-> "Allocate",
                                  size |-> Done.n * sizeofT, ptr |-> NULL] >>
              /\ Done.form = "one" => Done.n = 1
              /\ \E d \in {IF Done.alloc = "MemoryPoolAllocator"
                          THEN PoolAllocate(Ctx(Done.fails),
                                            Done.n * sizeofT)
                          ELSE MallocAllocate(Ctx(Done.fails),
                                              Done.n * sizeofT)} :
                    SameAs(d)
        /\ (WrapperStep("Deallocate") /\ Done.n >= 1)
           => /\ Done.calls = << [op |-> "Deallocate",
                                  size |-> Done.n * sizeofT,
                                  ptr |-> Done.ptr] >>
              /\ Done.form = "one" => Done.n = 1
              /\ \E d \in {IF Done.alloc = "MemoryPoolAllocator"
                          THEN PoolDeallocate(Ctx(0), Done.ptr,
                                              Done.n * sizeofT)
                          ELSE MallocDeallocate(Ctx(0), Done.ptr,
                                                Done.n * sizeofT)} :
                    SameAs(d) ]_vars

C24_Witness ==
    /\ Len(hist) = 4
    /\ IsCall(hist[1], "Allocate") /\ hist[1].form = "n" /\ hist[1].n = 10
    /\ hist[1].alloc = "MemoryPoolAllocator" /\ hist[1].ret # NULL
    /\ IsCall(hist[2], "Allocate") /\ hist[2].form = "one"
    /\ hist[2].alloc = "MallocAllocator" /\ hist[2].ret # NULL
    /\ IsCall(hist[3], "Deallocate") /\ hist[3].form = "n"
    /\ hist[3].ptr = hist[1].ret
    /\ IsCall(hist[4], "Deallocate") /\ hist[4].form = "one"
    /\ hist[4].ptr = hist[2].ret
    /\ freelist[GetFreelistIndex(10 * sizeofT)] = hist[1].ret
    /\ status = "running"

-----------------------------------------------------------------------------
(* vector<int> *)

VectorStep(op) == Len(hist') = Len(hist) + 1 /\ Done.op = op

(* No call so far had undefined behaviour *)
Defined == \A k \in 1..Len(hist) : ~hist[k].ub

(* The call returned and every store of it went into its buffer *)
Completed == Done.returned /\ ~Done.ub

Disjoint(a, b) == a.capacity <= b.begin \/ b.capacity <= a.begin

(* Every vector but `this` is what it was *)
OthersKept(this) ==
    \A u \in 1..Len(live) :
        u # this => /\ live'[u] = live[u]
                    /\ Elements(mem', live[u]) = Elements(mem, live[u])

(* C25: push_back(x) on any vector adds 1 to size(), makes x the last       *)
(* element and keeps every element stored before at its index; when end_   *)
(* equals capacity_ (the null buffer of vector() included) the elements     *)
(* move to a new buffer of max(2 * size(), 16) elements.  While no call had *)
(* undefined behaviour the call has none either and touches no other        *)
(* vector.                                                                  *)
C25_PushBack ==
    [][ VectorStep("push_back")
        => LET this == Done.this
           IN /\ Done.returned
                 => /\ VecSize(live'[this]) = VecSize(live[this]) + 1
                    /\ Elements(mem', live'[this])
                          = Append(Elements(mem, live[this]), Done.x)
                    /\ IF live[this].end = live[this].capacity
                       THEN /\ VecCapacity(live'[this])
                                = Max(2 * VecSize(live[this]), 16)
                            /\ live'[this].begin # live[this].begin
                       ELSE /\ live'[this].begin = live[this].begin
                            /\ live'[this].capacity = live[this].capacity
              /\ Defined => Completed /\ OthersKept(this) ]_vars

C25_Witness ==
    /\ Len(hist) = 3
    /\ hist[1].op = "vector(len, value)" /\ hist[1].n = 16
    /\ hist[2].op = "push_back" /\ hist[2].this = 1
    /\ hist[2].x # hist[1].x
    /\ hist[3].op = "push_back" /\ hist[3].this = 1
    /\ Defined /\ status = "running"
    /\ VecSize(live[1]) = 18 /\ VecCapacity(live[1]) = 32
    /\ Elements(mem, live[1])
          = [k \in 1..18 |-> IF k <= 16 THEN hist[1].x
                             ELSE IF k = 17 THEN hist[2].x ELSE hist[3].x]

(* The sequence s with x put before its element i + 1 *)
InsertAt(s, i, x) == SubSeq(s, 1, i) \o <<x>> \o SubSeq(s, i + 1, Len(s))

(* C26: insert(begin() + i, x) into e0..e(k-1), i <= k, gives k + 1         *)
(* elements with x at index i and the others in their order, with room or   *)
(* through a new buffer; erase(begin() + i) right after it gives e0..e(k-1) *)
(* back.  While no call had undefined behaviour neither call has any and    *)
(* neither touches another vector.                                          *)
C26_InsertErase ==
    [][ /\ VectorStep("insert")
           => LET this == Done.this
              IN /\ Done.at <= VecSize(live[this])
                 /\ Done.returned
                    => /\ VecSize(live'[this]) = VecSize(live[this]) + 1
                       /\ Elements(mem', live'[this])
                             = InsertAt(Elements(mem, live[this]), Done.at,
                                        Done.x)
                 /\ Defined => Completed /\ OthersKept(this)
        /\ (/\ VectorStep("erase")
            /\ Len(hist) >= 1
            /\ Last.op = "insert" /\ Last.returned
            /\ Last.this = Done.this /\ Last.at = Done.at)
           => LET this == Done.this
              IN /\ Done.returned
                    => /\ VecSize(live'[this]) = Len(Last.before)
                       /\ Elements(mem', live'[this]) = Last.before
                 /\ Defined => Completed /\ OthersKept(this) ]_vars

C26_Witness ==
    /\ Len(hist) = 3
    /\ hist[1].op = "vector(len, value)" /\ hist[1].n = 16
    /\ hist[2].op = "insert" /\ hist[2].this = 1 /\ hist[2].at = 1
    /\ hist[2].x # hist[1].x
    /\ hist[3].op = "erase" /\ hist[3].this = 1 /\ hist[3].at = 1
    /\ hist[3].before = InsertAt(hist[2].before, 1, hist[2].x)
    /\ Defined /\ status = "running"
    /\ VecCapacity(live[1]) = 32
    /\ Elements(mem, live[1]) = [k \in 1..16 |-> hist[1].x]

(* C27: resize(n, x) on a vector of k elements, for every k, n and x,       *)
(* leaves size() = n, the first min(k, n) elements as they were and x at    *)
(* every index from k up to n - 1 (resize(n) passes T()); while no call had *)
(* undefined behaviour the call has none.                                   *)
C27_Resize ==
    [][ VectorStep("resize")
        => LET this == Done.this
               old == Elements(mem, live[this])
               new == Elements(mem', live'[this])
               k == Len(old)
           IN /\ Done.returned
                 => /\ Len(new) = Done.n
                    /\ \A j \in 1..Done.n :
                          new[j] = IF j <= k THEN old[j] ELSE Done.x
              /\ Defined => Completed /\ OthersKept(this) ]_vars

(* C28: after vector v2(v1) and after v2 = v1, whatever v2 held, v2 has the *)
(* elements of v1, v1 is as it was, and the two buffers are distinct (a     *)
(* vector() assigned a vector() keeps the null buffer: neither owns one).   *)
(* While no call had undefined behaviour the copy has none, the buffers     *)
(* share no byte and no other vector is touched.                            *)
C28_Copy ==
    [][ (VectorStep("vector(other)")
            \/ (VectorStep("operator=") /\ Done.this # Done.at))
        => LET v2 == Done.this
               v1 == Done.at
           IN /\ Done.returned
                 => /\ VecSize(live'[v2]) = VecSize(live[v1])
                    /\ Elements(mem', live'[v2]) = Elements(mem, live[v1])
                    /\ live'[v1] = live[v1]
                    /\ Elements(mem', live'[v1]) = Elements(mem, live[v1])
                    /\ live'[v2].begin # NULL
                          => live'[v2].begin # live'[v1].begin
                    /\ VecSize(live[v1]) > 0 => live'[v2].begin # NULL
              /\ Defined => /\ Completed
                            /\ Disjoint(live'[v1], live'[v2])
                            /\ OthersKept(v2) ]_vars

(* C29: vector() has size() 0, is empty and has the null buffer;            *)
(* vector(len, value) has len elements, each value, and capacity            *)
(* max(len, 16); clear() leaves size() 0 and empty() and the capacity as it *)
(* was.  While no call had undefined behaviour these calls have none and    *)
(* touch no other vector.                                                   *)
C29_Construct ==
    [][ /\ VectorStep("vector()")
           => LET v == live'[Done.this]
              IN /\ Len(live') = Len(live) + 1
                 /\ VecSize(v) = 0 /\ VecEmpty(v)
                 /\ v = VectorDefault
        /\ VectorStep("vector(len, value)")
           => LET v == live'[Done.this]
              IN /\ Done.returned
                    => /\ Len(live') = Len(live) + 1
                       /\ VecSize(v) = Done.n
                       /\ Elements(mem', v) = [k \in 1..Done.n |-> Done.x]
                       /\ VecCapacity(v) = Max(Done.n, 16)
                 /\ Defined => Completed /\ OthersKept(Done.this)
        /\ VectorStep("clear")
           => LET this == Done.this
              IN /\ Done.returned
                    => /\ VecSize(live'[this]) = 0
                       /\ VecEmpty(live'[this])
                       /\ VecCapacity(live'[this])
                             = VecCapacity(live[this])
                       /\ live'[this].begin = live[this].begin
                 /\ Defined => Completed /\ OthersKept(this) ]_vars

C29_Witness ==
    /\ Len(hist) = 3
    /\ hist[1].op = "vector()"
    /\ hist[2].op = "vector(len, value)" /\ hist[2].n = 17
    /\ hist[3].op = "clear" /\ hist[3].this = 2
    /\ Len(hist[3].before) = 17
    /\ Defined /\ status = "running"
    /\ VecEmpty(live[1]) /\ live[1].begin = NULL
    /\ VecEmpty(live[2]) /\ VecCapacity(live[2]) = 17

-----------------------------------------------------------------------------
(* The bytes of the block at q that was allocated with `size` bytes: what   *)
(* the system heap granted at q above kMaxBytes, a block of its class below *)
BlockBytes(h, q, size) ==
    IF size > kMaxBytes
    THEN LET R == {r \in h : r.base = q}
         IN IF R = {} THEN 0 ELSE (CHOOSE r \in R : TRUE).size
    ELSE RoundUp(size)

(* C30: the block a Reallocate(p, oldsize, newsize) returns, when not null, *)
(* holds at least newsize bytes, for every oldsize and newsize, those above *)
(* kMaxBytes included.                                                      *)
C30_ReallocateCapacity ==
    [][ (Step("Reallocate") /\ Returned(Done) /\ Done.ret # NULL)
        => BlockBytes(heap', Done.ret,
                      IF RoundUp(Done.size) = RoundUp(Done.oldsize)
                      THEN Done.oldsize ELSE Done.size)
              >= Done.size ]_vars

-----------------------------------------------------------------------------
(* The arena is empty or lies inside a region the system heap granted *)
ArenaGranted ==
    \/ freespacestart = freespaceend
    \/ \E r \in heap : /\ r.base <= freespacestart
                       /\ freespaceend <= r.base + r.size

(* The call made MaxSysCalls system requests and all were refused *)
Exhausted(c) == Refusals(c) = MaxSysCalls /\ ~Granted(c)

(* C31: a small Allocate every system request and every retry of which was  *)
(* refused leaves a valid allocator: it returns, every free-list block lies *)
(* in granted memory, the arena is empty or lies in granted memory, and     *)
(* mallocoffset_ has not grown.                                             *)
C31_ValidAfterFailure ==
    [][ ( /\ SmallStep("Allocate")
          /\ Exhausted(Done)
          /\ \A k \in 1..Len(hist) : ~Exhausted(hist[k]) )
        => /\ status' = "running"
           /\ \A b \in FreeBlocks' :
                 \E r \in heap' : /\ r.base <= b.ptr
                                  /\ b.ptr + b.size <= r.base + r.size
           /\ ArenaGranted'
           /\ mallocoffset' = mallocoffset ]_vars

-----------------------------------------------------------------------------
(* C32: after every sequence of vector operations begin_ <= end_ <=         *)
(* capacity_ for every vector, so that size() <= capacity() and every       *)
(* element lies inside the buffer the allocator returned.                   *)
C32_CapacityInvariant ==
    \A t \in 1..Len(live) :
        /\ live[t].begin <= live[t].end
        /\ live[t].end <= live[t].capacity
        /\ VecSize(live[t]) <= VecCapacity(live[t])

-----------------------------------------------------------------------------
(* C33: for every size s, 0 <= s <= 128, GetFreelistIndex(s) is an index of *)
(* freelist_, so that Allocate(s) and Deallocate(p, s) stay inside the      *)
(* table.                                                                   *)
C33_IndexInBounds ==
    \A k \in 1..Len(hist) :
        (IsCall(hist[k], "GetFreelistIndex") /\ hist[k].size <= kMaxBytes)
        => hist[k].ret \in Classes

-----------------------------------------------------------------------------
(* The byte extents the pool manages: the blocks of the free lists, the     *)
(* small blocks the caller holds, and the arena when it is not empty.       *)
Arena ==
    IF freespacestart = freespaceend
    THEN {}
    ELSE {[ptr |-> freespacestart, size |-> BytesLeft, arena |-> TRUE]}

Acyclic(i) == \A n \in Nodes(i) : n \notin Chain(mem[n], {})

(* C34: under well-formed use the extents of all free-list blocks, of the   *)
(* live small blocks and of the arena [freespacestart_, freespaceend_) are  *)
(* pairwise disjoint, no block is linked twice, and this also after the     *)
(* arena remainder was pushed on a list and after a free block became the   *)
(* arena.                                                                   *)
C34_Disjoint ==
    /\ \A b1, b2 \in FreeBlocks \cup LiveBlocks :
          b1 # b2 => ~Overlap(b1.ptr, b1.size, b2.ptr, b2.size)
    /\ \A b \in FreeBlocks \cup LiveBlocks : \A a \in Arena :
          ~Overlap(b.ptr, b.size, a.ptr, a.size)
    /\ \A i \in Classes : Acyclic(i)
    /\ \A i, j \in 1..Len(live) :
          (i # j /\ live[i].size <= kMaxBytes /\ live[j].size <= kMaxBytes)
          => live[i].ptr # live[j].ptr

-----------------------------------------------------------------------------
RECURSIVE SumTo(_, _)
SumTo(f, n) == IF n = 0 THEN 0 ELSE f[n] + SumTo(f, n - 1)

(* The bytes on the free lists, the bytes of the small blocks the caller    *)
(* holds, and the bytes the system heap has granted and not taken back.     *)
FreeBytes ==
    SumTo([k \in 1..kFreeListNum |->
              kAlign * k * Cardinality(Nodes(k - 1))], kFreeListNum)

LiveBytes ==
    SumTo([k \in 1..Len(live) |->
              IF live[k].size <= kMaxBytes THEN Extent(live[k]) ELSE 0],
          Len(live))

HeapBytes ==
    LET rs == CHOOSE q \in [1..Cardinality(heap) -> heap] :
                  \A a, b \in 1..Cardinality(heap) : a # b => q[a] # q[b]
    IN SumTo([k \in 1..Cardinality(heap) |-> rs[k].size],
             Cardinality(heap))

(* C35: with a heap that grants every arena and well-formed use, the bytes  *)
(* left in the arena, the bytes on the free lists (8 * (c + 1) for each     *)
(* block of class c) and the RoundUp(s) bytes of each live small block add  *)
(* up to mallocoffset_, and mallocoffset_ bytes of arenas stay granted: no  *)
(* byte is lost and no small block goes back to the system heap.            *)
C35_Conservation ==
    /\ BytesLeft + FreeBytes + LiveBytes = mallocoffset
    /\ HeapBytes = mallocoffset

(* A state after a remainder was salvaged and a block deallocated *)
C35_Witness ==
    /\ \E k \in 1..Len(hist) :
          /\ IsCall(hist[k], "Allocate")
          /\ hist[k].req # <<>>
          /\ k > 1
    /\ \E k \in 1..Len(hist) : IsCall(hist[k], "Deallocate")
    /\ Cardinality({i \in Classes : freelist[i] # NULL}) >= 3
    /\ live # <<>>
    /\ mallocoffset > 0

-----------------------------------------------------------------------------
(* The classes a refill for `size` may requisition a block from *)
Requisitionable(size) ==
    {i \in Classes : i >= GetFreelistIndex(size) /\ freelist[i] # NULL}

(* C36: when the system heap refuses the arena of a refill while a free     *)
(* list of block size >= the requested block size is not empty, the refill  *)
(* makes no further system call, invokes no handler and does not abort,     *)
(* handler installed or not: Allocate returns the head of the first such    *)
(* list, a block of granted memory if that head was one.                    *)
C36_RequisitionFirst ==
    [][( /\ RefillStep
         /\ BytesLeft < RoundUp(Done.size)
         /\ Done.trace # <<>>
         /\ Done.trace[1] = "sys_fail"
         /\ Requisitionable(Done.size) # {} )
       => LET i == SetMin(Requisitionable(Done.size))
              block == freelist[i]
          IN /\ Done.trace = <<"sys_fail">>
             /\ Invocations(Done) = 0
             /\ status' # "aborted"
             /\ handler' = handler
             /\ Returned(Done) => Done.ret = block
             /\ Owned([ptr |-> block, size |-> kAlign * (i + 1)])
                => /\ status' = "running"
                   /\ Returned(Done)
                   /\ \E r \in heap' :
                         /\ r.base <= Done.ret
                         /\ Done.ret + RoundUp(Done.size)
                               <= r.base + r.size
      ]_vars

(* A requisition with no handler installed *)
C36_Witness ==
    /\ Len(hist) >= 3
    /\ handler = NULL
    /\ status = "running"
    /\ IsCall(Last, "Allocate") /\ Small(Last)
    /\ ~Last.popped
    /\ Last.trace = <<"sys_fail">>
    /\ Returned(Last) /\ Last.ret # NULL
    /\ Owned([ptr |-> Last.ret, size |-> RoundUp(Last.size)])
    /\ \A k \in 1..Len(hist) : ~IsCall(hist[k], "SetMallocHandler")

-----------------------------------------------------------------------------
(* The events of an Allocate whose k-th retry is the first system call to   *)
(* succeed (k = 0: the initial call succeeds)                               *)
RetryTrace(k) ==
    [p \in 1..(2 * k + 1) |->
        IF p = 2 * k + 1 THEN "sys_ok"
        ELSE IF p % 2 = 1 THEN "sys_fail" ELSE "handler"]

(* C37: MallocAllocator::Allocate stops at the first system call that       *)
(* succeeds: when the initial call succeeds no handler is invoked; when the *)
(* k-th retry, 1 <= k <= 3, is the first to succeed, the handler has been   *)
(* invoked exactly k times, each time just before a retry, the block of     *)
(* that retry is returned and no call follows; no Allocate makes more than  *)
(* 1 + max_retries system calls.                                            *)
C37_StopAtFirstSuccess ==
    \A j \in 1..Len(hist) :
        IsCall(hist[j], "Allocate")
        => LET c == hist[j]
               k == Refusals(c)
           IN /\ Len(c.trace) - Invocations(c) \in 1..(1 + max_retries)
              /\ c.trace[1] = "sys_ok" => Invocations(c) = 0
              /\ Granted(c)
                 => /\ k \in 0..max_retries
                    /\ c.trace = RetryTrace(k)
                    /\ Invocations(c) = k
                    /\ Returned(c) /\ c.ret # NULL
                    /\ (j = Len(hist) /\ status = "running")
                       => [base |-> c.ret, size |-> c.size] \in heap

(* Allocates whose first, second and third retry succeeded *)
C37_Witness ==
    /\ status = "running"
    /\ \A k \in 1..max_retries :
          \E j \in 1..Len(hist) :
             /\ IsCall(hist[j], "Allocate")
             /\ Granted(hist[j])
             /\ Refusals(hist[j]) = k
             /\ Invocations(hist[j]) = k
             /\ hist[j].ret # NULL

-----------------------------------------------------------------------------
(* The handler installed once handler h has returned *)
After(h) == HandlerEffect(h, h)

(* C38: MallocInOom and ReallocInOom read the installed handler before      *)
(* every retry.  The first handler invoked is the one installed when the    *)
(* call began and each further one is the handler its predecessor left      *)
(* installed; when the handler of retry i < 3 uninstalls the handler and    *)
(* the system call of that retry fails, the call aborts the process at the  *)
(* next iteration: nothing is returned and no further handler or system     *)
(* call follows.                                                            *)
C38_HandlerReRead ==
    \A j \in 1..Len(hist) :
        RawCall(hist[j])
        => LET c == hist[j]
               inv == c.invoked
               n == Len(inv)
           IN /\ n = Invocations(c)
              /\ n >= 1 => inv[1] = c.installed
              /\ \A i \in 1..(n - 1) : inv[i + 1] = After(inv[i])
              /\ \A i \in 1..n :
                    ( /\ After(inv[i]) = NULL
                      /\ i < max_retries
                      /\ Refusals(c) >= i + 1 )
                    => /\ n = i
                       /\ Refusals(c) = i + 1
                       /\ ~Granted(c)
                       /\ ~Returned(c)
                       /\ j = Len(hist)
                       /\ status = "aborted"
              /\ j = Len(hist)
                 => handler = IF n = 0 THEN c.installed ELSE After(inv[n])

(* A handler replaced at the first retry, its successor uninstalling the    *)
(* handler at the second, all system calls refused                          *)
C38_Witness ==
    /\ hist # <<>>
    /\ RawCall(Last)
    /\ Last.installed = Replacer
    /\ Last.invoked = <<Replacer, Uninstaller>>
    /\ Refusals(Last) = 3
    /\ status = "aborted"
    /\ handler = NULL

-----------------------------------------------------------------------------
(* The buffers Allocate has returned and Deallocate has not yet taken back, *)
(* from the allocator calls of the history in their order.  ok tells that   *)
(* every Deallocate(ptr, size) released a buffer that was out with that     *)
(* very size, and that no Allocate returned a buffer that was still out.    *)
RECURSIVE ReplayCalls(_, _, _)
ReplayCalls(acc, c, i) ==
    IF i > Len(c.calls)
    THEN acc
    ELSE LET e == c.calls[i]
         IN IF e.op = "Allocate"
            THEN Then([out |-> acc.out \cup {[ptr |-> c.grants[acc.g],
                                              size |-> e.size]},
                       ok |-> /\ acc.ok
                              /\ \A b \in acc.out : b.ptr # c.grants[acc.g],
                       g |-> acc.g + 1],
                      LAMBDA a : ReplayCalls(a, c, i + 1))
            ELSE Then([out |-> acc.out \ {[ptr |-> e.ptr, size |-> e.size]},
                       ok |-> /\ acc.ok
                              /\ [ptr |-> e.ptr, size |-> e.size] \in acc.out,
                       g |-> acc.g],
                      LAMBDA a : ReplayCalls(a, c, i + 1))

RECURSIVE ReplayTo(_)
ReplayTo(k) ==
    IF k = 0
    THEN [out |-> {}, ok |-> TRUE, g |-> 1]
    ELSE Then(ReplayTo(k - 1),
              LAMBDA a : ReplayCalls([a EXCEPT !.g = 1], hist[k], 1))

BufferOf(v) == [ptr |-> v.begin, size |-> v.capacity - v.begin]

(* C39: every buffer a vector got from Allocate(n) is released by one       *)
(* Deallocate(ptr, n) with the same n and never twice: capacity_ - begin_   *)
(* of every vector is the count its buffer was allocated with, no two       *)
(* vectors hold one buffer, and the buffers that are out are exactly those  *)
(* of the vectors alive, through InsertAux, swap, operator= and the         *)
(* destructor.                                                              *)
C39_ExactRelease ==
    \A a \in {ReplayTo(Len(hist))} :
        /\ a.ok
        /\ \A t \in 1..Len(live) :
              IF live[t].begin = NULL
              THEN live[t].capacity = NULL
              ELSE BufferOf(live[t]) \in a.out
        /\ \A t, u \in 1..Len(live) :
              (t # u /\ live[t].begin # NULL)
              => live[t].begin # live[u].begin
        /\ Cardinality(a.out)
              = Cardinality({t \in 1..Len(live) : live[t].begin # NULL})

(* A vector that grew through InsertAux and was then destroyed *)
C39_Witness ==
    /\ Len(hist) >= 3
    /\ status = "running"
    /\ Last.op = "~vector"
    /\ Len(Last.calls) = 1
    /\ \E k \in 1..(Len(hist) - 1) :
          /\ hist[k].op \in {"push_back", "insert"}
          /\ Len(hist[k].calls) = 2
          /\ hist[k].calls[2].size = 16 * sizeofT
          /\ Last.calls[1].size = 32 * sizeofT
          /\ Last.calls[1].ptr = hist[k].grants[1]
    /\ live = <<>>

-----------------------------------------------------------------------------
(* Two completed calls of different contexts returned one address *)
SameAddress(i, j) ==
    /\ i < j
    /\ hist[i].ctx # hist[j].ctx
    /\ hist[i].ret # NULL
    /\ hist[i].ret = hist[j].ret
    /\ SameClass(hist[i].size, hist[j].size)

(* C40: with every Allocate of the two contexts run under one lock, at most *)
(* one context is inside the pool at any time and no two calls return the   *)
(* same address; every call returns a block.                                *)
C40_LockedDistinct ==
    sync
    => /\ Cardinality({c \in Contexts :
                          threads[c].pc \notin {"idle", "lock"}}) <= 1
       /\ status = "running"
       /\ \A i, j \in 1..Len(hist) :
             /\ hist[i].ret # NULL
             /\ i # j => hist[i].ret # hist[j].ret

(* Without the lock: two calls of one class returned the same address out   *)
(* of Pop, and two returned the same address out of ChunkAlloc              *)
C40_Witness ==
    /\ ~sync
    /\ \E i, j \in 1..Len(hist) :
          SameAddress(i, j) /\ hist[i].popped /\ hist[j].popped
    /\ \E i, j \in 1..Len(hist) :
          SameAddress(i, j) /\ ~hist[i].popped /\ ~hist[j].popped

====
